---- MODULE Spec2Model ----
(***************************************************************************)
(* A model of BEASTling's document builder (beastling/beastxml.py).        *)
(*                                                                         *)
(* The built document is kept as the sequence of its elements in document  *)
(* order (pre-order of the element tree), each with its nesting depth.     *)
(* Identifiers are sequences of tokens: a user-chosen name is a sequence   *)
(* of characters over Chars, a literal of the program ("taxa", "MRCA",     *)
(* "tx_", ...) is one token that no character sequence over Chars spells.  *)
(* Real numbers are fixed-point integers: logarithms and candidate rates   *)
(* in units of 1e-8, the rounded estimates in units of 1e-4.               *)
(*                                                                         *)
(* Clocks, models and Calibration.generate_xml_element are external        *)
(* collaborators whose code is not part of beastxml.py.  A clock is the    *)
(* attributes the builder reads of it, and its add_state hook declares its *)
(* rate parameter; the other hooks contribute no element here.             *)
(*                                                                         *)
(* The files a build embeds are the environment: files gives what each     *)
(* name holds, fio is the log of the opens, reads and closes made.         *)
(* mc is the model configuration a CorrelatedModel is constructed from,    *)
(* with how far its construction got.                                      *)
(***************************************************************************)
EXTENDS Integers, Sequences, FiniteSets, TLC

VARIABLES cfg, pc, doc, reg, est, err, obj, out, ts, files, fio, mc, part

vars == <<cfg, pc, doc, reg, est, err, obj, out, ts, files, fio, mc, part>>

(***************************************************************************)
(* Bounds                                                                  *)
(***************************************************************************)
\* largest taxon universe (config.languages)
MaxTaxa == 4
\* largest number of entries of config.calibrations
MaxCals == 2
\* longest sequence of free-standing add_taxon_set calls
MaxCalls == 3

(***************************************************************************)
(* Names                                                                   *)
(***************************************************************************)
\* characters of user-chosen names, in ASCII order
\* ("originate" stands for the nine characters of that word)
Chars == <<" ", "_", "a", "b", "c", "d", "e", "f", "g", "originate">>

\* the absent identifier / attribute
None == <<>>

Lit(s) == <<s>>

Range(s) == {s[i] : i \in DOMAIN s}

Rank(tok) == IF \E i \in DOMAIN Chars : Chars[i] = tok
             THEN CHOOSE i \in DOMAIN Chars : Chars[i] = tok
             ELSE 0

\* Python's < on str
RECURSIVE LexLess(_, _)
LexLess(a, b) ==
    IF a = <<>> THEN b # <<>>
    ELSE IF b = <<>> THEN FALSE
    ELSE IF Rank(Head(a)) < Rank(Head(b)) THEN TRUE
    ELSE IF Rank(Head(a)) > Rank(Head(b)) THEN FALSE
    ELSE LexLess(Tail(a), Tail(b))

\* sorted(list(set(...))) over names
RECURSIVE SortNames(_)
SortNames(S) ==
    IF S = {} THEN <<>>
    ELSE LET m == CHOOSE x \in S : \A y \in S \ {x} : LexLess(x, y)
         IN  <<m>> \o SortNames(S \ {m})

\* the i-th taxon label: "a", "b", ...
Taxon(i) == <<Chars[i + 2]>>

Languages(n) == [i \in 1..n |-> Taxon(i)]

(***************************************************************************)
(* Texts: a literal string, or the str() of a float held in units of 1e-4  *)
(***************************************************************************)
NoTxt == [s |-> "", n |-> 0]

Str(s) == [s |-> s, n |-> 0]

\* a newline followed by k times two spaces
Ws(k) == [s |-> "ws", n |-> k]

\* not t or not t.strip()
Blank(t) == t = NoTxt \/ t.s = "ws"

\* str(x) of a float x = k / 10^4; str(1.0) is the literal "1.0"
FloatStr(k) == IF k = 10000 THEN Str("1.0") ELSE [s |-> "float", n |-> k]

(***************************************************************************)
(* Elements                                                                *)
(***************************************************************************)
El(sec, depth, tag, id, spec) ==
    [sec |-> sec, depth |-> depth, tag |-> tag, id |-> id, idref |-> None,
     spec |-> spec, name |-> "", refs |-> {}, text |-> NoTxt,
     tail |-> NoTxt, rootHeight |-> NoTxt, range |-> <<>>, flags |-> {},
     dimension |-> 0]

WithRefs(e, refs) == [e EXCEPT !.refs = refs]
WithIdref(e, idref) == [e EXCEPT !.idref = idref]
WithText(e, t) == [e EXCEPT !.text = t]
WithFlags(e, f) == [e EXCEPT !.flags = f]
StateNode(e) == [e EXCEPT !.name = "stateNode"]

\* the placeholder a plate substitutes
PlateVar == Lit("$(language)")

TreeId == Lit("Tree.t:beastlingTree")
BirthRateId == Lit("birthRate.t:beastlingTree")
DeathRateId == Lit("deathRate.t:beastlingTree")
SamplingId == Lit("sampling.t:beastlingTree")
PopSizeId == Lit("popSize.t:beastlingTree")

(***************************************************************************)
(* The taxon-set registry (self._taxon_sets): a dict from label to sorted  *)
(* taxa, kept as the sequence of its items in insertion order              *)
(***************************************************************************)
\* self._taxon_sets[label] = langs
DictSet(r, label, taxa) ==
    IF \E i \in DOMAIN r : r[i].label = label
    THEN [i \in DOMAIN r |-> IF r[i].label = label
                             THEN [label |-> label, taxa |-> taxa] ELSE r[i]]
    ELSE Append(r, [label |-> label, taxa |-> taxa])

\* the taxon children of a new taxonset: a plate above 3 members
TaxonElems(sec, d, sl, define_taxa) ==
    IF Len(sl) > 3
    THEN << [El(sec, d + 1, "plate", None, "") EXCEPT !.range = sl],
            IF define_taxa
            THEN El(sec, d + 2, "taxon", PlateVar, "")
            ELSE [El(sec, d + 2, "taxon", None, "") EXCEPT !.idref = PlateVar] >>
    ELSE [i \in 1..Len(sl) |->
            IF define_taxa
            THEN El(sec, d + 1, "taxon", sl[i], "")
            ELSE [El(sec, d + 1, "taxon", None, "") EXCEPT !.idref = sl[i]]]

\* add_taxon_set after its assertion, for the sorted, duplicate-free taxa sl
RegisterTaxonSet(r, sec, d, label, sl, define_taxa) ==
    IF \E i \in DOMAIN r : r[i].taxa = sl
    THEN LET i == CHOOSE i \in DOMAIN r :
                    /\ r[i].taxa = sl
                    /\ \A j \in 1..(i - 1) : r[j].taxa # sl
         IN  [ok |-> TRUE,
              elems |-> << [El(sec, d, "taxonset", None, "")
                               EXCEPT !.idref = r[i].label] >>,
              reg |-> r]
    ELSE LET lab == IF Len(sl) = 1 /\ label = sl[1]
                    THEN Lit("tx_") \o label ELSE label
         IN  [ok |-> TRUE,
              elems |-> << El(sec, d, "taxonset", lab, "TaxonSet") >>
                        \o TaxonElems(sec, d, sl, define_taxa),
              reg |-> DictSet(r, lab, sl)]

\* add_taxon_set without the assertion on empty taxa
AddTaxonSetUnchecked(r, sec, d, label, langs, define_taxa) ==
    RegisterTaxonSet(r, sec, d, label, SortNames(Range(langs)), define_taxa)

\* add_taxon_set: the elements appended under the parent (the taxonset at
\* depth d), the registry afterwards, and whether the assertion passed
AddTaxonSet(r, sec, d, label, langs, define_taxa) ==
    LET sl == SortNames(Range(langs))
    IN  IF sl = <<>>
        THEN [ok |-> FALSE, elems |-> <<>>, reg |-> r]
        ELSE RegisterTaxonSet(r, sec, d, label, sl, define_taxa)

(***************************************************************************)
(* The starting-value estimate                                             *)
(***************************************************************************)
\* 10^8 * (log(n) + 0.5772156649 - 1), to the nearest unit
HFix(n) == CASE n = 1 -> -42278434
             [] n = 2 -> 27036285
             [] n = 3 -> 67582795
             [] n = 4 -> 96351003
             [] n = 5 -> 118665358
             [] n = 6 -> 136897513
             [] OTHER -> 152312581

\* round(x, 4) of x >= 0 held in units of 1e-8; the result in units of 1e-4
Round4(x) == (x + 5000) \div 10000

\* round(h / b, 4) in units of 1e-4, for h in units of 1e-8, b > 0 in units of 1e-4
RoundQuot(h, b) == (2 * h + b) \div (2 * b)

\* the test without its single-taxon half
UsableAnySize(cal) == cal.dist \in {"normal", "lognormal"}

Usable(cal) == Len(cal.langs) # 1 /\ cal.dist \in {"normal", "lognormal"}

\* (log(len(cal.langs)) + 0.5772156649 - 1) / mid, in units of 1e-8
Candidate(cal) == HFix(Len(cal.langs)) \div cal.mid

RECURSIVE SumCandidates(_)
SumCandidates(S) ==
    IF S = {} THEN 0
    ELSE LET c == CHOOSE c \in S : TRUE
         IN  Candidate(c) + SumCandidates(S \ {c})

\* birthrate_estimate and treeheight_estimate; has_* is "is not None"
NoEstimate == [has_birth |-> FALSE, birth |-> 0, has_height |-> FALSE, height |-> 0]

\* the estimates that follow from the mean candidate rate, in units of 1e-8
EstimateFrom(mean, nlangs) ==
    LET b == Round4(mean)
    IN  IF b = 0
        THEN [err |-> "ZeroDivisionError",
              est |-> [has_birth |-> TRUE, birth |-> 0,
                       has_height |-> FALSE, height |-> 0]]
        ELSE [err |-> "",
              est |-> [has_birth |-> TRUE, birth |-> b,
                       has_height |-> TRUE,
                       height |-> RoundQuot(HFix(nlangs), b)]]

RECURSIVE SumCandidatesTotal(_, _)
SumCandidatesTotal(S, n) ==
    IF S = {} THEN 0
    ELSE LET c == CHOOSE c \in S : TRUE
         IN  (HFix(n) \div c.mid) + SumCandidatesTotal(S \ {c}, n)

\* the estimate with every candidate computed from the size of the whole
\* taxon universe instead of the size of the calibration's clade
EstimateOfTotalN(cals, nlangs) ==
    LET U == {c \in cals : Usable(c)}
    IN  IF \E c \in U : Len(c.langs) = 0
        THEN [err |-> "ValueError", est |-> NoEstimate]
        ELSE IF U = {}
        THEN [err |-> "", est |-> NoEstimate]
        ELSE EstimateFrom(SumCandidatesTotal(U, nlangs) \div Cardinality(U), nlangs)

\* estimate_tree_height: the two estimates, or the error it raises
EstimateOf(cals, nlangs) ==
    LET U == {c \in cals : Usable(c)}
    IN  IF \E c \in U : Len(c.langs) = 0
        THEN [err |-> "ValueError", est |-> NoEstimate]
        ELSE IF U = {}
        THEN [err |-> "", est |-> NoEstimate]
        ELSE EstimateFrom(SumCandidates(U) \div Cardinality(U), nlangs)

(***************************************************************************)
(* Configurations (the AnalysisConfig handed to BeastXml)                  *)
(***************************************************************************)
Cal(clade, langs, dist, mid, originate) ==
    [clade |-> clade, langs |-> langs, dist |-> dist, mid |-> mid,
     originate |-> originate]

\* the calibrations a configuration draws from
CalPool ==
    { Cal(<<"c", "a">>, <<Taxon(1), Taxon(2)>>, "normal", 100, FALSE),
      Cal(<<"c", "b">>, <<Taxon(1), Taxon(2), Taxon(3)>>, "lognormal", 50, FALSE),
      Cal(<<"c", "c">>, <<Taxon(2)>>, "normal", 10, FALSE),
      Cal(<<"c", "d">>, <<Taxon(2), Taxon(1), Taxon(2)>>, "uniform", 70, TRUE),
      Cal(<<"c", "e">>, <<>>, "normal", 100, FALSE),
      Cal(<<"c", "f">>, <<>>, "uniform", 70, FALSE) }

TipPool ==
    { Cal(Taxon(2), <<Taxon(2)>>, "normal", 5, FALSE),
      Cal(Taxon(1), <<Taxon(1)>>, "point", 3, FALSE) }

\* a clock as the builder reads it; beastxml is the back-reference to the
\* builder, unset before a build
Clock(name, estimate_rate, is_strict) ==
    [name |-> name, estimate_rate |-> estimate_rate,
     mean_rate_id |-> Lit("clockRate.c:") \o name,
     is_strict |-> is_strict,
     branchrate_model_id |-> Lit("Clock.c:") \o name,
     beastxml |-> FALSE]

\* the lists config.clocks is drawn from
ClockLists ==
    { << Clock(<<"d">>, TRUE, TRUE) >>,
      << Clock(<<"e">>, FALSE, FALSE) >>,
      << Clock(<<"e">>, FALSE, FALSE), Clock(<<"d">>, TRUE, TRUE) >> }

\* a model as the builder reads it; clock is the name of the model's clock,
\* metadata and treedata are identifiers its likelihood defines
Model(name, data_filename, clock, rate_variation, all_rates, weights, metadata, treedata) ==
    [name |-> name, data_filename |-> data_filename, clock |-> clock,
     rate_variation |-> rate_variation, all_rates |-> all_rates,
     weights |-> weights, metadata |-> metadata, treedata |-> treedata,
     beastxml |-> FALSE]

\* the lists config.models is drawn from (config.all_models is the same
\* list: there is no geographic model)
ModelLists ==
    { << Model(<<"f">>, "f2", <<"d">>, FALSE, <<>>, <<>>, <<>>, <<>>) >>,
      << Model(<<"f">>, "f2", <<"e">>, FALSE, <<>>, <<>>, <<>>, <<>>),
         Model(<<"g">>, "f1", <<"d">>, FALSE, <<>>, <<>>, <<>>, <<>>) >> }

\* no CorrelatedModel is being constructed
NoModelConfig == [name |-> <<>>, rate_variation |-> "absent", clock |-> <<>>,
                  base_init |-> FALSE, made |-> FALSE]

\* no partition asked for
NoPart == [taxa |-> {}, classifications |-> <<>>, start_depth |-> 0,
           end_depth |-> 0, structure |-> <<>>, newick |-> <<>>]

TreePriorNames == {"yule", "birthdeath", "coalescent", "uniform", "Yule", "bogus"}

\* str.lower() on the tree-prior names
Lower(s) == IF s = "Yule" THEN "yule" ELSE s

CalSets(n) ==
    { S \in SUBSET {c \in CalPool : Range(c.langs) \subseteq Range(Languages(n))} :
        Cardinality(S) <= MaxCals }

DefaultCfg(n, tp, cals) ==
    [languages |-> Languages(n), tree_prior |-> tp, calibrations |-> cals,
     tip_calibrations |-> {}, clocks |-> <<>>, models |-> <<>>,
     processed |-> TRUE, path_sampling |-> FALSE,
     embed_data |-> FALSE, files_to_embed |-> <<>>,
     tree_logging_pointless |-> FALSE, log_pure_tree |-> FALSE,
     monophyly |-> FALSE, starting_tree |-> FALSE,
     sample_topology |-> TRUE, sample_branch_lengths |-> TRUE,
     basename |-> "beastling",
     screenlog |-> TRUE, log_probabilities |-> TRUE, log_params |-> FALSE,
     log_fine_probs |-> FALSE, log_trees |-> TRUE]

\* configurations that vary the tree, its calibrations and what is sampled
CoreConfigs ==
    UNION { { [DefaultCfg(n, tp, cals) EXCEPT !.monophyly = m, !.starting_tree = st,
                                              !.sample_topology = stp,
                                              !.sample_branch_lengths = sbl] :
                tp \in TreePriorNames, cals \in CalSets(n),
                m \in BOOLEAN, st \in BOOLEAN, stp \in BOOLEAN, sbl \in BOOLEAN } :
            n \in 2..MaxTaxa }

\* configurations that vary what is logged, and the tip calibrations
LogConfigs ==
    { [DefaultCfg(MaxTaxa, tp, cals) EXCEPT !.tip_calibrations = tips,
                                            !.log_probabilities = lp,
                                            !.log_params = lpar,
                                            !.log_fine_probs = lf] :
        tp \in TreePriorNames,
        cals \in {S \in CalSets(MaxTaxa) : Cardinality(S) <= 1},
        tips \in SUBSET TipPool, lp \in BOOLEAN, lpar \in BOOLEAN,
        lf \in BOOLEAN }

\* configurations with clocks, and with tip calibrations whether or not
\* branch lengths are sampled
ClockConfigs ==
    { [DefaultCfg(MaxTaxa, tp, cals) EXCEPT !.clocks = cl,
                                            !.tip_calibrations = tips,
                                            !.sample_branch_lengths = sbl] :
        tp \in TreePriorNames,
        cals \in {S \in CalSets(MaxTaxa) : Cardinality(S) <= 1},
        cl \in ClockLists, tips \in {{}, TipPool}, sbl \in BOOLEAN }

\* configurations that vary the run envelope, the embedded files, the
\* models and whether the configuration was processed
RunConfigs ==
    { [DefaultCfg(MaxTaxa, tp, {}) EXCEPT !.processed = pr,
                                          !.path_sampling = ps,
                                          !.embed_data = ed,
                                          !.files_to_embed = fe,
                                          !.clocks = << Clock(<<"e">>, FALSE, FALSE),
                                                        Clock(<<"d">>, TRUE, TRUE) >>,
                                          !.models = ms,
                                          !.tree_logging_pointless = tlp,
                                          !.log_pure_tree = lpt] :
        tp \in {"yule"}, pr \in BOOLEAN, ps \in BOOLEAN,
        ed \in BOOLEAN, fe \in {<<>>, <<"f1">>, <<"f2", "f1">>},
        ms \in ModelLists \cup {<<>>}, tlp \in BOOLEAN, lpt \in BOOLEAN }

\* configurations whose models have rate variation: on one clock, on both,
\* on none, with unit weights and with others
RateConfigs ==
    { [DefaultCfg(MaxTaxa, "yule", {})
          EXCEPT !.clocks = << Clock(<<"e">>, FALSE, FALSE),
                               Clock(<<"d">>, TRUE, TRUE) >>,
                 !.models = [i \in DOMAIN ms |->
                               Model(<< <<"f">>, <<"g">>, <<"h">> >>[i], "f1", ms[i][1], ms[i][2],
                                     [j \in DOMAIN ms[i][3] |-> "r"],
                                     ms[i][3], <<>>, <<>>)]] :
        ms \in { << <<<<"d">>, TRUE, <<1, 1>> >> >>,
                 << <<<<"d">>, TRUE, <<1, 2>> >> >>,
                 << <<<<"d">>, TRUE, <<>> >>, <<<<"d">>, FALSE, <<2>> >> >>,
                 << <<<<"d">>, TRUE, <<1>> >>, <<<<"d">>, TRUE, <<2, 1>> >>,
                    <<<<"e">>, TRUE, <<1, 1>> >> >>,
                 << <<<<"e">>, TRUE, <<3>> >>, <<<<"d">>, TRUE, <<1>> >>,
                    <<<<"e">>, TRUE, <<1, 2>> >> >> } }

\* configurations whose calibrations have clade names that differ by a
\* space against an underscore, that end in "_originate", or that are a
\* taxon label, and one whose midpoint is large
CladeConfigs ==
    LET pool ==
          { Cal(<<"c", " ", "a">>, <<Taxon(1), Taxon(2)>>, "normal", 100, FALSE),
            Cal(<<"c", "_", "a">>, <<Taxon(2), Taxon(3)>>, "lognormal", 50, FALSE),
            Cal(<<"c", "_", "a", "_", "originate">>,
                <<Taxon(1), Taxon(2), Taxon(3)>>, "uniform", 70, TRUE),
            Cal(Taxon(1), <<Taxon(1), Taxon(3)>>, "normal", 100, FALSE),
            Cal(<<"e">>, <<Taxon(1), Taxon(2)>>, "normal", 10000, FALSE) }
    IN  { DefaultCfg(MaxTaxa, tp, cals) :
            tp \in {"yule", "birthdeath"},
            cals \in {S \in SUBSET pool : Cardinality(S) <= MaxCals} }

Configs ==
    CoreConfigs \cup LogConfigs \cup ClockConfigs \cup RunConfigs
    \cup RateConfigs \cup CladeConfigs

(***************************************************************************)
(* The build: BeastXml.__init__ and the methods it calls, in call order    *)
(***************************************************************************)
\* the files of the environment, each a readable file, a file whose read
\* fails, or nothing: only a build that embeds data reads them
FilesFor(c) ==
    IF c.embed_data THEN [{"f1", "f2"} -> {"ok", "unreadable", "missing"}]
    ELSE {[f \in {"f1", "f2"} |-> "ok"]}

Init ==
    /\ cfg \in Configs
    /\ pc = "new"
    /\ doc = <<>>
    /\ reg = <<>>
    /\ est = NoEstimate
    /\ err = ""
    /\ obj = FALSE
    /\ out = <<>>
    /\ ts = <<>>
    /\ files \in FilesFor(cfg)
    /\ fio = <<>>
    /\ mc = NoModelConfig
    /\ part = NoPart

Fail(e) == /\ pc' = "error"
           /\ err' = e

\* the configuration after __init__ has processed it where it was not and
\* has set itself on every model and clock
Introduced(c) ==
    LET TellAbout(objs) ==
            [i \in DOMAIN objs |-> [objs[i] EXCEPT !.beastxml = TRUE]]
    IN  [c EXCEPT !.processed = TRUE,
                  !.models = TellAbout(c.models),
                  !.clocks = TellAbout(c.clocks)]

\* BeastXml.__init__ up to build_xml
Construct ==
    /\ pc = "new"
    /\ cfg' = Introduced(cfg)
    /\ reg' = <<>>
    /\ pc' = "build_xml"
    /\ UNCHANGED <<doc, est, err, obj, out, ts, files, fio, mc, part>>

\* format_data_file for each name in turn, from the elements d and the log
\* l: open, read, close, and the comment element it returns; open raises
\* for a missing file, read for an unreadable one, and the exception ends
\* the loop where it is raised
RECURSIVE FileLoop(_, _, _, _)
FileLoop(fs, st, d, l) ==
    IF fs = <<>> THEN [err |-> "", elems |-> d, fio |-> l]
    ELSE LET f == Head(fs)
         IN  CASE st[f] = "missing" ->
                    [err |-> "FileNotFoundError", elems |-> d, fio |-> l]
               [] st[f] = "unreadable" ->
                    [err |-> "ReadError", elems |-> d,
                     fio |-> Append(l, [op |-> "open", file |-> f])]
               [] OTHER ->
                    FileLoop(Tail(fs), st,
                             Append(d, WithText(El("root", 1, "comment", None, ""),
                                        Str("BEASTling embedded data file: " \o f))),
                             l \o << [op |-> "open", file |-> f],
                                     [op |-> "read", file |-> f],
                                     [op |-> "close", file |-> f] >>)

\* the names embed_data goes through: files_to_embed, then each model's
EmbeddedNames(c) ==
    c.files_to_embed \o [i \in DOMAIN c.models |-> c.models[i].data_filename]

\* embed_data
EmbedData(c, st, l) ==
    IF ~c.embed_data THEN [err |-> "", elems |-> <<>>, fio |-> l]
    ELSE FileLoop(EmbeddedNames(c), st, <<>>, l)

\* add_beastling_comment
BeastlingComment ==
    WithText(El("root", 1, "comment", None, ""), Str("Generated by BEASTling"))

\* add_maps (beast_maps.maps is kept as one map element)
Maps == << WithText(El("root", 1, "map", None, ""), Str("beast.math.distributions.Beta")) >>

\* clock.add_branchrate_model for the clocks, in their order: each declares
\* its branch-rate model under the root
BranchRateModels(clocks) ==
    [i \in DOMAIN clocks |->
        El("root", 1, "branchRateModel", clocks[i].branchrate_model_id, "")]

\* the root's children with the maps ahead of the comments
PreambleMapsFirst(c, embedded) ==
    << El("root", 0, "beast", None, "") >> \o Maps \o << BeastlingComment >>
    \o embedded \o BranchRateModels(c.clocks)

\* the root and its children before the run, given the embedded comments
Preamble(c, embedded) ==
    << El("root", 0, "beast", None, ""), BeastlingComment >> \o embedded
    \o Maps \o BranchRateModels(c.clocks)

\* build_xml up to add_run; a failure in embed_data leaves the root, the
\* comment and the data comments made before it
BuildXml ==
    /\ pc = "build_xml"
    /\ LET e == EmbedData(cfg, files, fio)
       IN  /\ fio' = e.fio
           /\ IF e.err = ""
              THEN /\ doc' = Preamble(cfg, e.elems)
                   /\ pc' = "add_run"
                   /\ err' = err
              ELSE /\ doc' = << El("root", 0, "beast", None, ""), BeastlingComment >>
                                \o e.elems
                   /\ Fail(e.err)
    /\ UNCHANGED <<cfg, reg, est, obj, out, ts, files, mc, part>>

\* elements placed under self.run, which is nested one level deeper under
\* a path sampler
Under(c, elems) ==
    [i \in DOMAIN elems |->
        [elems[i] EXCEPT !.depth = @ + (IF c.path_sampling THEN 1 ELSE 0)]]

\* add_standard_sampling_run
AddStandardSamplingRun ==
    /\ pc = "add_run"
    /\ ~cfg.path_sampling
    /\ doc' = doc \o << El("run", 1, "run", Lit("mcmc"), "MCMC") >>
    /\ pc' = "estimate"
    /\ UNCHANGED <<cfg, reg, est, err, obj, out, ts, files, fio, mc, part>>

\* add_path_sampling_run: the path sampler and, nested in it, the mcmc
\* element that becomes self.run
AddPathSamplingRun ==
    /\ pc = "add_run"
    /\ cfg.path_sampling
    /\ doc' = doc \o
         << WithText(El("run", 1, "run", Lit("ps"), "beast.inference.PathSampler"),
                     Str("cd $(dir) java -cp $(java.class.path) ...")),
            El("run", 2, "mcmc", Lit("mcmc"), "MCMC") >>
    /\ pc' = "estimate"
    /\ UNCHANGED <<cfg, reg, est, err, obj, out, ts, files, fio, mc, part>>

\* estimate_tree_height
EstimateTreeHeight ==
    /\ pc = "estimate"
    /\ LET e == EstimateOf(cfg.calibrations, Len(cfg.languages))
       IN  /\ est' = e.est
           /\ IF e.err # "" THEN Fail(e.err)
              ELSE pc' = "state" /\ err' = err
    /\ UNCHANGED <<cfg, doc, reg, obj, out, ts, files, fio, mc, part>>

RatePriors == {"yule", "birthdeath"}

\* the parameter elements of add_tree_state
TreeStateParams(tp, e) ==
    IF tp \in RatePriors
    THEN << WithText(StateNode(El("state", 3, "parameter", BirthRateId, "")),
                     IF e.has_birth THEN FloatStr(e.birth) ELSE Str("1.0")) >>
         \o (IF tp = "birthdeath"
             THEN << WithText(StateNode(El("state", 3, "parameter", DeathRateId, "")),
                              Str("0.5")),
                     WithText(StateNode(El("state", 3, "parameter", SamplingId, "")),
                              Str("0.2")) >>
             ELSE <<>>)
    ELSE IF tp = "coalescent"
    THEN << WithText(StateNode(El("state", 3, "parameter", PopSizeId, "")),
                     Str("1.0")) >>
    ELSE <<>>

\* add_tip_heights: the date trait, a child of the tree
TipHeights(tips) ==
    IF tips # {}
    THEN << WithText(WithRefs(El("state", 4, "trait", Lit("datetrait"),
                                 "beast.evolution.tree.TraitSet"), {Lit("taxa")}),
                     Str("date-backward")) >>
    ELSE <<>>

\* clock.add_state for the clocks, in their order: each declares its rate
ClockState(clocks) ==
    [i \in DOMAIN clocks |->
        WithText(StateNode(El("state", 3, "parameter", clocks[i].mean_rate_id, "")),
                 Str("1.0"))]

\* add_state and add_tree_state; the trait is appended to the tree after the
\* parameters are appended to the state, so it precedes them in the document
AddState ==
    /\ pc = "state"
    /\ LET head == << El("state", 2, "state", Lit("state"), ""),
                      StateNode(El("state", 3, "tree", TreeId, "")) >>
           t == AddTaxonSet(reg, "state", 4, Lit("taxa"), cfg.languages, TRUE)
       IN  IF ~t.ok
           THEN /\ doc' = doc \o Under(cfg, head)
                /\ reg' = reg
                /\ Fail("AssertionError")
           ELSE /\ doc' = doc \o Under(cfg, head \o t.elems
                                            \o TipHeights(cfg.tip_calibrations)
                                            \o TreeStateParams(cfg.tree_prior, est)
                                            \o ClockState(cfg.clocks))
                /\ reg' = t.reg
                /\ pc' = "init"
                /\ err' = err
    /\ UNCHANGED <<cfg, est, obj, out, ts, files, fio, mc, part>>

\* str(self.treeheight_estimate), set when birthrate_estimate is not None
RootHeight(e) ==
    IF e.has_birth
    THEN (IF e.has_height THEN FloatStr(e.height) ELSE Str("None"))
    ELSE NoTxt

PopulationModel ==
    << El("init", 3, "populationModel", None, "ConstantPopulation"),
       El("init", 4, "popSize", None, "parameter.RealParameter") >>

InitElem(spec, refs, e) ==
    [WithRefs(El("init", 2, "init", Lit("startingTree"), spec), refs)
        EXCEPT !.rootHeight = RootHeight(e)]

\* add_randomtree_init
RandomTreeInit(e) ==
    << InitElem("beast.evolution.tree.RandomTree", {TreeId, Lit("taxa")}, e) >>
    \o PopulationModel

\* a SimpleRandomTree seeded with a population model like the other two
SimpleRandomTreeInitSeeded(e) ==
    << InitElem("beast.evolution.tree.SimpleRandomTree", {TreeId, Lit("taxa")}, e) >>
    \o PopulationModel

\* add_simplerandomtree_init
SimpleRandomTreeInit(e) ==
    << InitElem("beast.evolution.tree.SimpleRandomTree", {TreeId, Lit("taxa")}, e) >>

\* add_constrainedrandomtree_init
ConstrainedRandomTreeInit(e) ==
    << InitElem("beast.evolution.tree.ConstrainedRandomTree",
                {TreeId, Lit("taxa"), Lit("constraints")}, e) >>
    \o PopulationModel

\* add_init with the tests for uniform calibrations and for monophyly in
\* the other order
InitForUniformFirst(c, e) ==
    IF c.starting_tree
    THEN << WithRefs(El("init", 2, "init", Lit("startingTree"),
                        "beast.util.TreeParser"), {TreeId}) >>
    ELSE IF /\ c.monophyly /\ Len(c.languages) > 2
            /\ \E cal \in c.calibrations : cal.dist = "uniform"
    THEN SimpleRandomTreeInit(e)
    ELSE IF c.monophyly
    THEN ConstrainedRandomTreeInit(e)
    ELSE RandomTreeInit(e)

\* add_init: the initializer chosen for a configuration
InitFor(c, e) ==
    IF c.starting_tree
    THEN << WithRefs(El("init", 2, "init", Lit("startingTree"),
                        "beast.util.TreeParser"), {TreeId}) >>
    ELSE IF c.monophyly /\ Len(c.languages) > 2
    THEN ConstrainedRandomTreeInit(e)
    ELSE IF \E cal \in c.calibrations : cal.dist = "uniform"
    THEN SimpleRandomTreeInit(e)
    ELSE RandomTreeInit(e)

AddInit ==
    /\ pc = "init"
    /\ doc' = doc \o Under(cfg, InitFor(cfg, est))
    /\ pc' = "distributions"
    /\ UNCHANGED <<cfg, reg, est, err, obj, out, ts, files, fio, mc, part>>

\* add_distributions and the first line of add_prior
AddDistributions ==
    /\ pc = "distributions"
    /\ doc' = doc \o Under(cfg,
                       << El("posterior", 2, "distribution", Lit("posterior"),
                             "util.CompoundDistribution"),
                          El("prior", 3, "distribution", Lit("prior"),
                             "util.CompoundDistribution") >>)
    /\ pc' = "monophyly"
    /\ UNCHANGED <<cfg, reg, est, err, obj, out, ts, files, fio, mc, part>>

\* add_monophyly_constraints
MonophylyConstraints(c) ==
    IF c.monophyly
    THEN << WithRefs(El("prior", 4, "distribution", Lit("constraints"),
                        "beast.math.distributions.MultiMonophyleticConstraint"),
                     {TreeId}) >>
    ELSE <<>>

AddMonophylyConstraints ==
    /\ pc = "monophyly"
    /\ doc' = doc \o Under(cfg, MonophylyConstraints(cfg))
    /\ pc' = "calibrations"
    /\ UNCHANGED <<cfg, reg, est, err, obj, out, ts, files, fio, mc, part>>

\* sorted(...) of the (clade, calibration) items, by clade name
RECURSIVE SortCals(_)
SortCals(S) ==
    IF S = {} THEN <<>>
    ELSE LET m == CHOOSE x \in S : \A y \in S : ~LexLess(y.clade, x.clade)
         IN  <<m>> \o SortCals(S \ {m})

\* clade.replace(" ", "_")
Underscored(n) == [i \in DOMAIN n |-> IF n[i] = " " THEN "_" ELSE n[i]]

\* clade[:-len("_originate")] if clade.endswith("_originate") else clade
TaxonSetName(clade) ==
    IF /\ Len(clade) >= 2
       /\ clade[Len(clade) - 1] = "_"
       /\ clade[Len(clade)] = "originate"
    THEN SubSeq(clade, 1, Len(clade) - 2) ELSE clade

MRCAId(clade) == Underscored(clade) \o Lit("MRCA")

\* the MRCAPrior element of one calibration
CalPrior(c) ==
    WithFlags(WithRefs(El("prior", 4, "distribution", MRCAId(c.clade),
                          "beast.math.distributions.MRCAPrior"), {TreeId}),
              {"monophyletic"}
              \cup (IF c.originate THEN {"useOriginate"}
                    ELSE IF Len(c.langs) = 1 THEN {"tipsonly"} ELSE {}))

\* the loop of add_calibrations over the sorted calibrations cs, from the
\* elements d and registry r; it stops at the first failed assertion, after
\* that calibration's prior element was appended
RECURSIVE CalLoop(_, _, _)
CalLoop(cs, d, r) ==
    IF cs = <<>> THEN [ok |-> TRUE, doc |-> d, reg |-> r]
    ELSE LET c == Head(cs)
         IN  IF c.dist = "point" THEN CalLoop(Tail(cs), d, r)
             ELSE LET t == AddTaxonSet(r, "prior", 5,
                                       TaxonSetName(Underscored(c.clade)),
                                       c.langs, FALSE)
                  IN  IF ~t.ok
                      THEN [ok |-> FALSE, doc |-> Append(d, CalPrior(c)), reg |-> r]
                      ELSE CalLoop(Tail(cs), Append(d, CalPrior(c)) \o t.elems, t.reg)

AllCals(c) == c.calibrations \cup c.tip_calibrations

\* add_calibrations
AddCalibrations ==
    /\ pc = "calibrations"
    /\ LET l == CalLoop(SortCals(AllCals(cfg)), <<>>, reg)
       IN  /\ doc' = doc \o Under(cfg, l.doc)
           /\ reg' = l.reg
           /\ IF l.ok THEN pc' = "tree_prior" /\ err' = err
              ELSE Fail("AssertionError")
    /\ UNCHANGED <<cfg, est, obj, out, ts, files, fio, mc, part>>

UniformDistr(id) == El("prior", 5, "Uniform", Lit(id), "")

ParamPrior(id, x) ==
    WithRefs(El("prior", 4, "prior", Lit(id), ""), {x})

\* the choice with "at most one calibration" for "one calibration"
YuleVariantAtMostOne(cals) ==
    IF Cardinality(cals) <= 1 THEN "calibrated" ELSE "standard"

\* the choice between the standard and the calibrated Yule model
YuleVariant(cals) ==
    IF Cardinality(cals) = 1 THEN "calibrated"
    ELSE IF Cardinality(cals) = 2
    THEN IF \E c1, c2 \in cals :
               /\ c1 # c2
               /\ Cardinality(Range(c1.langs) \cap Range(c2.langs))
                     \in {Len(c1.langs), Len(c2.langs)}
         THEN "calibrated" ELSE "standard"
    ELSE "standard"

\* add_yule_tree_prior
YuleTreePrior(c) ==
    << WithFlags(WithRefs(El("prior", 4, "distribution",
                             Lit("YuleModel.t:beastlingTree"),
                             IF YuleVariant(c.calibrations) = "standard"
                             THEN "beast.evolution.speciation.YuleModel"
                             ELSE "beast.evolution.speciation.CalibratedYuleModel"),
                          {TreeId, BirthRateId}),
                 IF /\ YuleVariant(c.calibrations) = "standard"
                    /\ \E cal \in c.calibrations : cal.clade = Lit("root")
                 THEN {"conditionalOnRoot"} ELSE {}),
       ParamPrior("YuleBirthRatePrior.t:beastlingTree", BirthRateId),
       UniformDistr("Uniform.0") >>

\* add_birthdeath_tree_prior: the attributes of the tree prior itself are
\* built and then overwritten, so only the three parameter priors are emitted
BirthDeathTreePrior ==
    << ParamPrior("BirthRatePrior.t:beastlingTree", BirthRateId),
       UniformDistr("Uniform.0"),
       ParamPrior("relativeDeathRatePrior.t:beastlingTree", DeathRateId),
       UniformDistr("Uniform.1"),
       ParamPrior("samplingPrior.t:beastlingTree", SamplingId),
       UniformDistr("Uniform.3") >>

\* add_coalescent_tree_prior
CoalescentTreePrior ==
    << El("prior", 4, "distribution", Lit("Coalescent.t:beastlingTree"), "Coalescent"),
       El("prior", 5, "populationModel", Lit("ConstantPopulation:beastlingTree"),
          "ConstantPopulation"),
       [WithIdref(El("prior", 6, "parameter", None, ""), PopSizeId)
           EXCEPT !.name = "popSize"],
       WithRefs(El("prior", 5, "treeIntervals", Lit("TreeIntervals"), "TreeIntervals"),
                {TreeId}) >>

\* add_tree_prior without its final else branch
TreePriorAlwaysKnown(tp) == TRUE

\* whether add_tree_prior accepts the name
TreePriorKnown(tp) == Lower(tp) \in {"yule", "birthdeath", "coalescent", "uniform"}

\* add_tree_prior
TreePriorElems(c) ==
    CASE Lower(c.tree_prior) = "yule" -> YuleTreePrior(c)
      [] Lower(c.tree_prior) = "birthdeath" -> BirthDeathTreePrior
      [] Lower(c.tree_prior) = "coalescent" -> CoalescentTreePrior
      [] OTHER -> <<>>

AddTreePrior ==
    /\ pc = "tree_prior"
    /\ IF TreePriorKnown(cfg.tree_prior)
       THEN /\ doc' = doc \o Under(cfg, TreePriorElems(cfg))
            /\ pc' = "likelihood"
            /\ err' = err
       ELSE /\ doc' = doc
            /\ Fail("ValueError")
    /\ UNCHANGED <<cfg, reg, est, obj, out, ts, files, fio, mc, part>>

\* add_likelihood
AddLikelihood ==
    /\ pc = "likelihood"
    /\ doc' = doc \o Under(cfg, << El("likelihood", 3, "distribution",
                                      Lit("likelihood"),
                                      "util.CompoundDistribution") >>)
    /\ pc' = "operators"
    /\ UNCHANGED <<cfg, reg, est, err, obj, out, ts, files, fio, mc, part>>

Operator(id, spec, refs) ==
    WithRefs(El("operators", 2, "operator", Lit(id), spec), refs)

TopologyOperators ==
    << Operator("SubtreeSlide.t:beastlingTree", "SubtreeSlide", {TreeId}),
       Operator("narrow.t:beastlingTree", "Exchange", {TreeId}),
       WithFlags(Operator("wide.t:beastlingTree", "Exchange", {TreeId}),
                 {"isNarrow=false"}),
       Operator("WilsonBalding.t:beastlingTree", "WilsonBalding", {TreeId}) >>

BranchLengthOperators ==
    << Operator("UniformOperator.t:beastlingTree", "Uniform", {TreeId}),
       Operator("treeScaler.t:beastlingTree", "ScaleOperator", {TreeId}),
       WithFlags(Operator("treeRootScaler.t:beastlingTree", "ScaleOperator", {TreeId}),
                 {"rootOnly"}) >>

\* one "down" parameter for each clock whose rate is estimated
RECURSIVE ClockRates(_)
ClockRates(clocks) ==
    IF clocks = <<>> THEN <<>>
    ELSE (IF Head(clocks).estimate_rate
          THEN << [WithIdref(El("operators", 3, "parameter", None, ""),
                             Head(clocks).mean_rate_id) EXCEPT !.name = "down"] >>
          ELSE <<>>)
         \o ClockRates(Tail(clocks))

\* the clock rates linked whether or not there are calibrations
UpDownClockRatesAlways(c) == ClockRates(c.clocks)

\* the clock rates of the up/down operator: only if calibrations are given
UpDownClockRates(c) ==
    IF c.calibrations # {} THEN ClockRates(c.clocks) ELSE <<>>

\* the up/down operator
UpDownOperator(c) ==
    IF c.tree_prior \in RatePriors
    THEN << Operator("UpDown", "UpDownOperator", {}),
            [WithIdref(El("operators", 3, "tree", None, ""), TreeId)
                EXCEPT !.name = "up"],
            [WithIdref(El("operators", 3, "parameter", None, ""), BirthRateId)
                EXCEPT !.name = "down"] >>
         \o UpDownClockRates(c)
    ELSE <<>>

\* the scalers with the birth rate scaled under every tree prior
RateScalersAlways(c) ==
    << Operator("YuleBirthRateScaler.t:beastlingTree", "ScaleOperator",
                {BirthRateId}) >>
    \o (IF c.tree_prior = "coalescent"
        THEN << Operator("PopulationSizeScaler.t:beastlingTree", "ScaleOperator",
                         {PopSizeId}) >>
        ELSE <<>>)

RateScalers(c) ==
    (IF c.tree_prior \in RatePriors
     THEN << Operator("YuleBirthRateScaler.t:beastlingTree", "ScaleOperator",
                      {BirthRateId}) >>
     ELSE IF c.tree_prior = "coalescent"
     THEN << Operator("PopulationSizeScaler.t:beastlingTree", "ScaleOperator",
                      {PopSizeId}) >>
     ELSE <<>>)
    \o (IF c.tree_prior = "birthdeath"
        THEN << Operator("SamplingScaler.t:beastlingTree", "ScaleOperator",
                         {SamplingId}),
                Operator("DeathRateScaler.t:beastlingTree", "ScaleOperator",
                         {DeathRateId}) >>
        ELSE <<>>)

\* the first taxon of every tip calibration, point or not
TipTaxaOfAll(cs) == [i \in DOMAIN cs |-> cs[i].langs[1]]

\* the taxa with non-point tip calibrations, for a mapping whose items are
\* in the order of their clade names
RECURSIVE TipTaxa(_)
TipTaxa(cs) ==
    IF cs = <<>> THEN <<>>
    ELSE (IF Head(cs).dist # "point" THEN <<Head(cs).langs[1]>> ELSE <<>>)
         \o TipTaxa(Tail(cs))

\* the loop over tip_taxa at the end of add_tree_operators
RECURSIVE TipLoop(_, _, _)
TipLoop(taxa, d, r) ==
    IF taxa = <<>> THEN [ok |-> TRUE, doc |-> d, reg |-> r]
    ELSE LET op == WithRefs(El("operators", 2, "operator",
                               Lit("TipDatesandomWalker:") \o Head(taxa),
                               "TipDatesRandomWalker"), {TreeId})
             t == AddTaxonSet(r, "operators", 3, Head(taxa), <<Head(taxa)>>, FALSE)
         IN  IF ~t.ok
             THEN [ok |-> FALSE, doc |-> Append(d, op), reg |-> r]
             ELSE TipLoop(Tail(taxa), Append(d, op) \o t.elems, t.reg)

\* add_tree_operators, up to the tip-date operators
TreeOperators(c) ==
    (IF c.sample_topology THEN TopologyOperators ELSE <<>>)
    \o (IF c.sample_branch_lengths
        THEN BranchLengthOperators \o UpDownOperator(c) ELSE <<>>)
    \o RateScalers(c)

\* itertools.chain(*ss)
RECURSIVE Flatten(_)
Flatten(ss) == IF ss = <<>> THEN <<>> ELSE Head(ss) \o Flatten(Tail(ss))

RECURSIVE SumLen(_)
SumLen(ws) == IF ws = <<>> THEN 0 ELSE Len(Head(ws)) + SumLen(Tail(ws))

\* the models with rate variation on the clock named n, in their order
RECURSIVE ClockModels(_, _)
ClockModels(ms, n) ==
    IF ms = <<>> THEN <<>>
    ELSE (IF Head(ms).rate_variation /\ Head(ms).clock = n
          THEN <<Head(ms)>> ELSE <<>>)
         \o ClockModels(Tail(ms), n)

\* the plate of each model under the delta exchanger
RECURSIVE RatePlates(_)
RatePlates(ms) ==
    IF ms = <<>> THEN <<>>
    ELSE << [El("operators", 3, "plate", None, "")
                EXCEPT !.range = Head(ms).all_rates],
            WithIdref(El("operators", 4, "parameter", None, ""),
                      Lit("featureClockRate:") \o Head(ms).name
                          \o Lit(":$(rate)")) >>
         \o RatePlates(Tail(ms))

\* " ".join(map(str, ws))
RECURSIVE JoinStr(_)
JoinStr(ws) ==
    IF ws = <<>> THEN ""
    ELSE IF Len(ws) = 1 THEN ToString(ws[1])
    ELSE ToString(ws[1]) \o " " \o JoinStr(Tail(ws))

\* a delta exchanger for every model with rate variation on its own
RECURSIVE DeltaExchangersPerModel(_, _)
DeltaExchangersPerModel(clocks, ms) ==
    IF ms = <<>> THEN <<>>
    ELSE (IF Head(ms).rate_variation
             /\ \E i \in DOMAIN clocks : clocks[i].name = Head(ms).clock
          THEN << El("operators", 2, "operator",
                     Lit("featureClockRateDeltaExchanger:") \o Head(ms).clock,
                     "DeltaExchangeOperator") >>
               \o RatePlates(<<Head(ms)>>)
          ELSE <<>>)
         \o DeltaExchangersPerModel(clocks, Tail(ms))

\* one DeltaExchangeOperator for the feature rates of each clock that has
\* models with rate variation; a weight vector if any weight is not 1
RECURSIVE DeltaExchangers(_, _)
DeltaExchangers(clocks, ms) ==
    IF clocks = <<>> THEN <<>>
    ELSE LET cm == ClockModels(ms, Head(clocks).name)
             ws == Flatten([i \in DOMAIN cm |-> cm[i].weights])
         IN  (IF cm = <<>> THEN <<>>
              ELSE << El("operators", 2, "operator",
                         Lit("featureClockRateDeltaExchanger:") \o Head(clocks).name,
                         "DeltaExchangeOperator") >>
                   \o RatePlates(cm)
                   \o (IF \E i \in DOMAIN cm : \E j \in DOMAIN cm[i].weights :
                              cm[i].weights[j] # 1
                       THEN << [WithText(
                                  El("operators", 3, "weightvector",
                                     Lit("featureClockRateWeightParameter:")
                                         \o Head(clocks).name,
                                     "parameter.IntegerParameter"),
                                  Str(JoinStr(ws)))
                                  EXCEPT !.dimension =
                                      SumLen([i \in DOMAIN cm |-> cm[i].weights])] >>
                       ELSE <<>>))
             \o DeltaExchangers(Tail(clocks), ms)

\* add_operators (the add_operators hooks of clocks and models add nothing)
AddOperators ==
    /\ pc = "operators"
    /\ LET l == IF cfg.tip_calibrations # {} /\ cfg.sample_branch_lengths
                THEN TipLoop(TipTaxa(SortCals(cfg.tip_calibrations)),
                             TreeOperators(cfg), reg)
                ELSE [ok |-> TRUE, doc |-> TreeOperators(cfg), reg |-> reg]
       IN  /\ doc' = doc \o Under(cfg, l.doc
                                       \o (IF l.ok
                                           THEN DeltaExchangers(cfg.clocks, cfg.models)
                                           ELSE <<>>))
           /\ reg' = l.reg
           /\ IF l.ok THEN pc' = "loggers" /\ err' = err
              ELSE Fail("AssertionError")
    /\ UNCHANGED <<cfg, est, obj, out, ts, files, fio, mc, part>>

Log(d, idref) == WithIdref(El("loggers", d, "log", None, ""), idref)

\* add_screen_logger
ScreenLogger(c) ==
    IF ~c.screenlog THEN <<>>
    ELSE << El("loggers", 2, "logger", Lit("screenlog"), ""),
            WithRefs(El("loggers", 3, "log", Lit("ESS.0"), "util.ESS"),
                     {Lit("posterior")}),
            Log(3, Lit("prior")), Log(3, Lit("likelihood")), Log(3, Lit("posterior")) >>

ParamLogs(c) ==
    IF c.tree_prior \in RatePriors
    THEN <<Log(3, BirthRateId)>>
         \o (IF c.tree_prior = "birthdeath"
             THEN <<Log(3, DeathRateId), Log(3, SamplingId)>> ELSE <<>>)
    ELSE IF c.tree_prior = "coalescent" THEN <<Log(3, PopSizeId)>>
    ELSE <<>>

RECURSIVE MRCALogs(_)
MRCALogs(cs) ==
    IF cs = <<>> THEN <<>>
    ELSE (IF Head(cs).dist = "point" THEN <<>>
          ELSE <<Log(3, MRCAId(Head(cs).clade))>>)
         \o MRCALogs(Tail(cs))

\* add_tracer_logger
TracerLogger(c) ==
    IF ~(c.log_probabilities \/ c.log_params) THEN <<>>
    ELSE << El("loggers", 2, "logger", Lit("tracelog"), "") >>
         \o (IF c.log_probabilities
             THEN <<Log(3, Lit("prior")), Log(3, Lit("likelihood")),
                    Log(3, Lit("posterior"))>>
             ELSE <<>>)
         \o (IF c.log_params THEN ParamLogs(c) ELSE <<>>)
         \o (IF ~c.tree_logging_pointless
             THEN << WithRefs(El("loggers", 3, "log", Lit("treeStats"),
                                 "beast.evolution.tree.TreeStatLogger"), {TreeId}) >>
             ELSE <<>>)
         \o MRCALogs(SortCals(AllCals(c)))
         \o (IF c.log_fine_probs
             THEN <<Log(3, Lit("YuleModel.t:beastlingTree")),
                    Log(3, Lit("YuleBirthRatePrior.t:beastlingTree"))>>
             ELSE <<>>)

\* add_tree_logger(suffix, branchrate_model_id)
TreeLogger(suffix, brid) ==
    << El("loggers", 2, "logger", Lit("treeLogger") \o suffix, ""),
       WithRefs(El("loggers", 3, "log", Lit("TreeLoggerWithMetaData") \o suffix,
                   "beast.evolution.tree.TreeWithMetaDataLogger"), {TreeId}) >>
    \o (IF brid # None
        THEN << WithIdref(El("loggers", 4, "branchratemodel", None, ""), brid) >>
        ELSE <<>>)

\* the clock a model names
ClockNamed(c, n) == CHOOSE k \in Range(c.clocks) : k.name = n

\* one tree logger with branch rates for each clock of ks (names in order)
RECURSIVE RateTreeLoggers(_, _, _)
RateTreeLoggers(c, names, single) ==
    IF names = <<>> THEN <<>>
    ELSE TreeLogger(IF single THEN <<>>
                    ELSE Lit("_") \o Head(names) \o Lit("_rates"),
                    ClockNamed(c, Head(names)).branchrate_model_id)
         \o RateTreeLoggers(c, Tail(names), single)

\* add_trait_tree_logger("_reconstructed")
TraitTreeLogger(c) ==
    LET mds == Flatten([i \in DOMAIN c.models |-> c.models[i].treedata])
    IN  << El("loggers", 2, "logger", Lit("treeLogger") \o Lit("_reconstructed"), ""),
           WithRefs(El("loggers", 3, "log", Lit("ReconstructedStateTreeLogger"),
                       "beast.evolution.tree.TreeWithTraitLogger"), {TreeId}) >>
        \o [i \in DOMAIN mds |->
               WithIdref(El("loggers", 4, "metadata", None, ""), mds[i])]

\* add_trait_logger("_reconstructed")
TraitLogger(c) ==
    LET refs == Flatten([i \in DOMAIN c.models |-> c.models[i].metadata])
    IN  << El("loggers", 2, "logger", Lit("traitLogger") \o Lit("_reconstructed"), "") >>
        \o [i \in DOMAIN refs |-> Log(3, refs[i])]

\* add_tree_loggers (there is no geographic model, so it returns after the
\* trait tree logger)
TreeLoggers(c) ==
    IF ~c.log_trees \/ c.tree_logging_pointless THEN <<>>
    ELSE LET ns == { ClockNamed(c, c.models[i].clock) : i \in DOMAIN c.models }
                       \ { k \in Range(c.clocks) : k.is_strict }
         IN  (IF ns = {} THEN TreeLogger(<<>>, None)
              ELSE RateTreeLoggers(c, SortNames({k.name : k \in ns}),
                                   Cardinality(ns) = 1))
             \o (IF c.log_pure_tree /\ ns # {}
                 THEN TreeLogger(Lit("_pure"), None) ELSE <<>>)
             \o (IF \E i \in DOMAIN c.models : c.models[i].treedata # <<>>
                 THEN TraitTreeLogger(c) ELSE <<>>)

\* add_loggers
AddLoggers ==
    /\ pc = "loggers"
    /\ doc' = doc \o Under(cfg, ScreenLogger(cfg) \o TracerLogger(cfg)
                                  \o TreeLoggers(cfg)
                                  \o (IF \E i \in DOMAIN cfg.models :
                                            cfg.models[i].metadata # <<>>
                                      THEN TraitLogger(cfg) ELSE <<>>))
    /\ pc' = "built"
    /\ UNCHANGED <<cfg, reg, est, err, obj, out, ts, files, fio, mc, part>>

\* BeastXml(config) returns: the caller holds the object and its document
Return ==
    /\ pc = "built"
    /\ obj' = TRUE
    /\ pc' = "done"
    /\ UNCHANGED <<cfg, doc, reg, est, err, out, ts, files, fio, mc, part>>

(***************************************************************************)
(* Serialization: indent, write, tostring, write_file                      *)
(***************************************************************************)
\* len(elem) > 0 for element i of d
HasChildren(d, i) == i < Len(d) /\ d[i + 1].depth > d[i].depth

\* the text indent leaves on element i
NewText(d, i) ==
    IF HasChildren(d, i) /\ Blank(d[i].text) THEN Ws(d[i].depth + 1)
    ELSE d[i].text

\* the tail with the indentation added to what is there
NewTailAppended(d, i) ==
    IF d[i].tail = NoTxt THEN Ws(d[i].depth)
    ELSE [d[i].tail EXCEPT !.n = @ + d[i].depth + 1]

\* the tail indent leaves on element i: its own pass sets a blank tail to
\* its level (not on a childless root), and its parent's pass then sets the
\* blank tail of the last child to the parent's level
NewTail(d, i) ==
    IF ~Blank(d[i].tail) THEN d[i].tail
    ELSE IF /\ d[i].depth > 0
            /\ \A j \in (i + 1)..Len(d) :
                  d[j].depth = d[i].depth =>
                      \E k \in (i + 1)..j : d[k].depth < d[i].depth
    THEN Ws(d[i].depth - 1)
    ELSE IF HasChildren(d, i) \/ d[i].depth > 0 THEN Ws(d[i].depth)
    ELSE d[i].tail

\* indent(self.beast)
Indent(d) ==
    [i \in DOMAIN d |-> [d[i] EXCEPT !.text = NewText(d, i),
                                     !.tail = NewTail(d, i)]]

XmlDeclaration == "<?xml version='1.0' encoding='UTF-8'?>"

\* tree.write(stream, encoding='UTF-8', xml_declaration=True): the
\* declaration, then for each element what ElementTree writes for it, its
\* tag, attributes, text and tail
Serialize(d) ==
    << XmlDeclaration >>
    \o [i \in DOMAIN d |->
          << d[i].tag, d[i].depth, d[i].id, d[i].idref, d[i].spec, d[i].name,
             d[i].refs, d[i].rootHeight, d[i].range, d[i].flags,
             d[i].dimension, d[i].text, d[i].tail >>]

\* only 'stdout' names standard output
StreamForStdoutOnly(c, filename) ==
    IF filename = "stdout" THEN [stream |-> "stdout", opened |-> {}]
    ELSE LET f == IF filename # "" THEN filename ELSE c.basename \o ".xml"
         IN  [stream |-> f, opened |-> {f}]

\* the stream write_file writes to and the files it opens; "" is a call
\* without a file name
StreamFor(c, filename) ==
    IF filename \in {"stdout", "-"} THEN [stream |-> "stdout", opened |-> {}]
    ELSE LET f == IF filename # "" THEN filename ELSE c.basename \o ".xml"
         IN  [stream |-> f, opened |-> {f}]

\* write(stream), as called by call with the argument filename: the tree
\* is indented in place and written; out records the call, the tree it
\* found and the bytes the stream received
Write(call, filename, to) ==
    /\ doc' = Indent(doc)
    /\ out' = Append(out, [call |-> call, filename |-> filename,
                           stream |-> to.stream, opened |-> to.opened,
                           tree |-> doc, bytes |-> Serialize(Indent(doc))])

\* write_file(), once: it needs the object the constructor returned
WriteFile ==
    /\ pc = "done"
    /\ obj
    /\ out = <<>>
    /\ Write("write_file", "", StreamFor(cfg, ""))
    /\ UNCHANGED <<cfg, pc, reg, est, err, obj, ts, files, fio, mc, part>>

(***************************************************************************)
(* Builds that are written any number of times, to any target              *)
(***************************************************************************)
\* most calls of write_file and tostring on one object
MaxWrites == 2

\* write_file with any file name ("" for none)
WriteFileCall ==
    /\ pc = "done"
    /\ obj
    /\ Len(out) < MaxWrites
    /\ \E filename \in {"stdout", "-", "", "out.xml"} :
         Write("write_file", filename, StreamFor(cfg, filename))
    /\ UNCHANGED <<cfg, pc, reg, est, err, obj, ts, files, fio, mc, part>>

\* tostring(): write into a BytesIO and return what it holds
Tostring ==
    /\ pc = "done"
    /\ obj
    /\ Len(out) < MaxWrites
    /\ Write("tostring", "", [stream |-> "BytesIO", opened |-> {}])
    /\ UNCHANGED <<cfg, pc, reg, est, err, obj, ts, files, fio, mc, part>>

(***************************************************************************)
(* add_taxon_set on its own: calls with any label and any taxa on one      *)
(* registry and one parent element                                         *)
(***************************************************************************)
InitTS ==
    /\ cfg = DefaultCfg(2, "uniform", {})
    /\ pc = "taxon_sets"
    /\ doc = <<>>
    /\ reg = <<>>
    /\ est = NoEstimate
    /\ err = ""
    /\ obj = FALSE
    /\ out = <<>>
    /\ ts = <<>>
    /\ files \in FilesFor(cfg)
    /\ fio = <<>>
    /\ mc = NoModelConfig
    /\ part = NoPart

\* one call add_taxon_set(parent, label, langs, define_taxa); ts records it
AddTaxonSetCall ==
    /\ pc = "taxon_sets"
    /\ Len(ts) < MaxCalls
    /\ \E label \in { Taxon(1), <<"g">>, Lit("tx_") \o Taxon(1) },
          langs \in { <<>>, <<Taxon(1)>>, <<Taxon(2)>>, <<Taxon(1), Taxon(2)>>,
                      <<Taxon(2), Taxon(1), Taxon(2)>> },
          define_taxa \in BOOLEAN :
         LET t == AddTaxonSet(reg, "parent", 1, label, langs, define_taxa)
         IN  /\ ts' = Append(ts, [label |-> label, langs |-> langs,
                                  define_taxa |-> define_taxa, ok |-> t.ok,
                                  elems |-> t.elems, before |-> reg,
                                  after |-> t.reg])
             /\ doc' = doc \o t.elems
             /\ reg' = t.reg
             /\ IF t.ok THEN pc' = pc /\ err' = err
                ELSE Fail("AssertionError")
    /\ UNCHANGED <<cfg, est, obj, out, files, fio, mc, part>>

NextTS == AddTaxonSetCall

SpecTS == InitTS /\ [][NextTS]_vars

Next ==
    \/ Construct
    \/ BuildXml
    \/ AddStandardSamplingRun
    \/ AddPathSamplingRun
    \/ EstimateTreeHeight
    \/ AddState
    \/ AddInit
    \/ AddDistributions
    \/ AddMonophylyConstraints
    \/ AddCalibrations
    \/ AddTreePrior
    \/ AddLikelihood
    \/ AddOperators
    \/ AddLoggers
    \/ Return
    \/ WriteFile

Spec == Init /\ [][Next]_vars

(***************************************************************************)
(* CorrelatedModel(model_config, global_config), and the build of the      *)
(* configuration that holds the model                                      *)
(***************************************************************************)
\* bool(v)
Truthy(v) == v \in {"True", "1", "'yes'"}

\* the test that passes every value but True itself
RateVariationIsTrue(m) == m.rate_variation = "True"

\* model_config.get("rate_variation", False)
RateVariationGiven(m) ==
    Truthy(IF m.rate_variation = "absent" THEN "False" ELSE m.rate_variation)

\* the model configurations, with what they can hold under
\* "rate_variation" as Python writes it
ModelConfigs ==
    { [NoModelConfig EXCEPT !.name = n, !.rate_variation = rv, !.clock = k] :
        n \in {<<"f">>, <<"g">>},
        rv \in {"absent", "False", "True", "0", "1", "''", "'yes'"},
        k \in {<<"d">>, <<"e">>} }

InitCM ==
    /\ \E ps \in BOOLEAN :
         cfg = [DefaultCfg(MaxTaxa, "yule", {})
                   EXCEPT !.path_sampling = ps,
                          !.clocks = << Clock(<<"e">>, FALSE, FALSE),
                                        Clock(<<"d">>, TRUE, TRUE) >>]
    /\ pc = "model_new"
    /\ doc = <<>>
    /\ reg = <<>>
    /\ est = NoEstimate
    /\ err = ""
    /\ obj = FALSE
    /\ out = <<>>
    /\ ts = <<>>
    /\ files \in FilesFor(cfg)
    /\ fio = <<>>
    /\ mc \in ModelConfigs
    /\ part = NoPart

\* CorrelatedModel.__init__ up to the call of BaseModel.__init__
CorrelatedModelInit ==
    /\ pc = "model_new"
    /\ IF RateVariationGiven(mc)
       THEN Fail("IncompatibleSettingOptions")
       ELSE pc' = "base_init" /\ err' = err
    /\ UNCHANGED <<cfg, doc, reg, est, obj, out, ts, files, fio, mc, part>>

\* BaseModel.__init__ and the return of the constructor: the model exists
\* and the configuration holds it
BaseModelInit ==
    /\ pc = "base_init"
    /\ mc' = [mc EXCEPT !.base_init = TRUE, !.made = TRUE]
    /\ cfg' = [cfg EXCEPT !.models =
                  << Model(mc.name, "f1", mc.clock, FALSE, <<>>, <<>>, <<>>, <<>>) >>]
    /\ pc' = "new"
    /\ UNCHANGED <<doc, reg, est, err, obj, out, ts, files, fio, part>>

NextCM ==
    \/ CorrelatedModelInit
    \/ BaseModelInit
    \/ Construct
    \/ BuildXml
    \/ AddStandardSamplingRun
    \/ AddPathSamplingRun
    \/ EstimateTreeHeight
    \/ AddState
    \/ AddInit
    \/ AddDistributions
    \/ AddMonophylyConstraints
    \/ AddCalibrations
    \/ AddTreePrior
    \/ AddLikelihood
    \/ AddOperators
    \/ AddLoggers
    \/ Return

SpecCM == InitCM /\ [][NextCM]_vars

\* the builds that are written repeatedly
InitW ==
    /\ \E tp \in {"yule", "coalescent"}, ps \in BOOLEAN,
          tips \in {{}, TipPool}, m \in BOOLEAN :
         cfg = [DefaultCfg(MaxTaxa, tp, {}) EXCEPT !.path_sampling = ps,
                                                   !.tip_calibrations = tips,
                                                   !.monophyly = m]
    /\ pc = "new"
    /\ doc = <<>>
    /\ reg = <<>>
    /\ est = NoEstimate
    /\ err = ""
    /\ obj = FALSE
    /\ out = <<>>
    /\ ts = <<>>
    /\ files \in FilesFor(cfg)
    /\ fio = <<>>
    /\ mc = NoModelConfig
    /\ part = NoPart

NextW ==
    \/ Construct
    \/ BuildXml
    \/ AddStandardSamplingRun
    \/ AddPathSamplingRun
    \/ EstimateTreeHeight
    \/ AddState
    \/ AddInit
    \/ AddDistributions
    \/ AddMonophylyConstraints
    \/ AddCalibrations
    \/ AddTreePrior
    \/ AddLikelihood
    \/ AddOperators
    \/ AddLoggers
    \/ Return
    \/ WriteFileCall
    \/ Tostring

SpecW == InitW /\ [][NextW]_vars

(***************************************************************************)
(* The classification partitioner: the tight monophyly structure of a set  *)
(* of taxa and its bracket string (config.monophyly_newick, which          *)
(* add_monophyly_constraints hands to the constraint element)              *)
(***************************************************************************)
\* longest classification path
MaxPath == 2

Leaf(label) == [kind |-> "Leaf", label |-> label, kids |-> <<>>]

Group(kids) == [kind |-> "Group", label |-> None, kids |-> kids]

\* the classification entry of a taxon at a depth, "" past the path's end
Entry(classifications, t, depth) ==
    IF depth \in DOMAIN classifications[t] THEN classifications[t][depth]
    ELSE ""

\* the sorted Leaf-list of a set of taxa
LeafList(taxa) ==
    LET sorted == SortNames(taxa)
    IN  Group([i \in DOMAIN sorted |-> Leaf(sorted[i])])

RECURSIVE NestingDepth(_)
NestingDepth(node) ==
    IF node.kind = "Leaf" THEN 0
    ELSE LET ds == {NestingDepth(node.kids[i]) : i \in DOMAIN node.kids}
         IN  1 + (IF ds = {} THEN 0 ELSE CHOOSE m \in ds : \A d \in ds : d <= m)

RECURSIVE FirstLeaf(_)
FirstLeaf(node) ==
    IF node.kind = "Leaf" THEN node.label
    ELSE IF node.kids = <<>> THEN None
    ELSE FirstLeaf(node.kids[1])

\* sorted by the key (negative nesting depth, first leaf label)
RECURSIVE SortNodes(_)
SortNodes(S) ==
    IF S = {} THEN <<>>
    ELSE LET KeyLess(a, b) ==
                 \/ NestingDepth(a) > NestingDepth(b)
                 \/ /\ NestingDepth(a) = NestingDepth(b)
                    /\ LexLess(FirstLeaf(a), FirstLeaf(b))
             m == CHOOSE x \in S : \A y \in S \ {x} : ~KeyLess(y, x)
         IN  <<m>> \o SortNodes(S \ {m})

\* the distinct entry values but the exhausted one
SplitValuesNamed(taxa, classifications, depth) ==
    {Entry(classifications, t, depth) : t \in taxa} \ {""}

\* the distinct entry values of the taxa at a depth
SplitValues(taxa, classifications, depth) ==
    {Entry(classifications, t, depth) : t \in taxa}

\* the tight partition of taxa from depth to end_depth
RECURSIVE TightStructure(_, _, _, _)
TightStructure(taxa, classifications, depth, end_depth) ==
    LET values == SplitValues(taxa, classifications, depth)
        parts == { TightStructure(
                       {t \in taxa : Entry(classifications, t, depth) = v},
                       classifications, depth + 1, end_depth) : v \in values }
    IN  IF depth > end_depth THEN LeafList(taxa)
        ELSE IF Cardinality({Entry(classifications, t, depth) : t \in taxa}) = 1
        THEN IF \A t \in taxa : Entry(classifications, t, depth) = ""
             THEN LeafList(taxa)
             ELSE TightStructure(taxa, classifications, depth + 1, end_depth)
        ELSE Group(SortNodes({p \in parts : p.kids # <<>>}))

\* a Leaf as its label, a Group as its children in brackets joined by commas
RECURSIVE Newick(_)
RECURSIVE JoinNewick(_)
JoinNewick(kids) ==
    IF kids = <<>> THEN <<>>
    ELSE IF Len(kids) = 1 THEN Newick(kids[1])
    ELSE Newick(kids[1]) \o <<",">> \o JoinNewick(Tail(kids))

Newick(node) ==
    IF node.kind = "Leaf" THEN node.label
    ELSE <<"(">> \o JoinNewick(node.kids) \o <<")">>

\* the classifications of the taxa to partition; one label is longer than
\* one character; a path holds the ancestor group names of a taxon from
\* coarsest to finest
Classifications ==
    LET Paths == UNION { [1..n -> {"x", "y"}] : n \in 0..MaxPath }
    IN  UNION { [taxa -> Paths] :
                  taxa \in SUBSET {Taxon(1), Taxon(2), Taxon(1) \o Taxon(2)} }

InitP ==
    /\ cfg = DefaultCfg(2, "uniform", {})
    /\ pc = "partition"
    /\ doc = <<>>
    /\ reg = <<>>
    /\ est = NoEstimate
    /\ err = ""
    /\ obj = FALSE
    /\ out = <<>>
    /\ ts = <<>>
    /\ files \in FilesFor(cfg)
    /\ fio = <<>>
    /\ mc = NoModelConfig
    /\ \E classifications \in Classifications,
          start_depth \in 1..2, end_depth \in 0..(MaxPath + 1) :
         part = [NoPart EXCEPT !.taxa = DOMAIN classifications,
                               !.classifications = classifications,
                               !.start_depth = start_depth,
                               !.end_depth = end_depth]

\* the nested grouping of the taxa
MakeTightMonophylyStructure ==
    /\ pc = "partition"
    /\ part' = [part EXCEPT !.structure =
                    TightStructure(part.taxa, part.classifications,
                                   part.start_depth, part.end_depth)]
    /\ pc' = "newick"
    /\ UNCHANGED <<cfg, doc, reg, est, err, obj, out, ts, files, fio, mc>>

\* its bracket string
MakeNewick ==
    /\ pc = "newick"
    /\ part' = [part EXCEPT !.newick = Newick(part.structure)]
    /\ pc' = "made"
    /\ UNCHANGED <<cfg, doc, reg, est, err, obj, out, ts, files, fio, mc>>

NextP ==
    \/ MakeTightMonophylyStructure
    \/ MakeNewick

SpecP == InitP /\ [][NextP]_vars

(***************************************************************************)
(* Reading a document                                                      *)
(***************************************************************************)
Built == pc \in {"built", "done"}

\* the identifiers element i defines (a plate defines one per member)
IdsAt(d, i) ==
    IF d[i].id = None THEN {}
    ELSE IF d[i].id = PlateVar THEN Range(d[i - 1].range)
    ELSE {d[i].id}

\* the identifiers element i refers to, by '@X' attributes and by idref
RefsAt(d, i) ==
    d[i].refs \cup (IF d[i].idref = None THEN {}
                    ELSE IF d[i].idref = PlateVar THEN Range(d[i - 1].range)
                    ELSE {d[i].idref})

\* the children of element i
Children(d, i) ==
    { j \in DOMAIN d : /\ j > i
                       /\ d[j].depth = d[i].depth + 1
                       /\ \A k \in (i + 1)..j : d[k].depth > d[i].depth }

Where(d, id) == { i \in DOMAIN d : d[i].id = id }

Tagged(d, tag) == { i \in DOMAIN d : d[i].tag = tag }

(***************************************************************************)
(* C1                                                                      *)
(***************************************************************************)
\* C1: in the built document every '@X' attribute and every idref names an
\* identifier defined by an element earlier in document order.
C1_ReferenceClosure ==
    Built =>
        \A i \in DOMAIN doc : \A x \in RefsAt(doc, i) :
            \E j \in 1..(i - 1) : x \in IdsAt(doc, j)

(***************************************************************************)
(* C2 (under SpecTS)                                                       *)
(***************************************************************************)
\* C2: of the add_taxon_set calls made with one set of taxa, the first emits
\* a taxonset definition and every later one emits only a reference to the
\* identifier of that definition.
C2_TaxonSetDedup ==
    \A i, j \in DOMAIN ts :
        ( /\ i < j
          /\ ts[i].ok /\ ts[j].ok
          /\ Range(ts[i].langs) = Range(ts[j].langs)
          /\ \A k \in 1..(i - 1) : Range(ts[k].langs) # Range(ts[i].langs) )
        => /\ ts[i].elems[1].id # None
           /\ Len(ts[j].elems) = 1
           /\ ts[j].elems[1].id = None
           /\ ts[j].elems[1].idref = ts[i].elems[1].id

(***************************************************************************)
(* C3                                                                      *)
(***************************************************************************)
RateIds == {BirthRateId, DeathRateId, SamplingId}

Mentions(e, ids) ==
    \/ e.id \in ids
    \/ e.idref \in ids
    \/ e.refs \cap ids # {}

IsPopSize(e) ==
    \/ Mentions(e, {PopSizeId})
    \/ e.tag = "popSize"
    \/ e.name = "popSize"

NoRateNodes(d) ==
    \A i \in DOMAIN d :
        /\ d[i].id \notin RateIds
        /\ d[i].sec = "operators" => ~Mentions(d[i], RateIds)

\* the claim as stated: with 'yule' or 'birthdeath' no population-size
\* element anywhere in the document
C3_NoPopSizeAnywhere ==
    Built =>
        /\ cfg.tree_prior = "coalescent" => NoRateNodes(doc)
        /\ cfg.tree_prior \in {"yule", "birthdeath"} =>
              \A i \in DOMAIN doc : ~IsPopSize(doc[i])

\* C3: with 'coalescent' the built document has no birth-rate, death-rate
\* or sampling state node and no operator on them; with 'yule' or
\* 'birthdeath' it has no popSize state node, operator or reference, its
\* only population-size element being the constant popSize of the
\* initializer's population model.
C3_TreePriorExclusivity ==
    Built =>
        /\ cfg.tree_prior = "coalescent" => NoRateNodes(doc)
        /\ cfg.tree_prior \in {"yule", "birthdeath"} =>
              \A i \in DOMAIN doc :
                  IsPopSize(doc[i]) =>
                      /\ doc[i].sec = "init"
                      /\ doc[i].tag = "popSize"
                      /\ ~Mentions(doc[i], {PopSizeId})
                      /\ doc[i - 1].tag = "populationModel"

C3_Witness ==
    /\ Built
    /\ cfg.tree_prior = "yule"
    /\ \E i \in DOMAIN doc : doc[i].tag = "popSize"

(***************************************************************************)
(* C4                                                                      *)
(***************************************************************************)
Scenario(c) ==
    /\ Len(c.languages) = 4
    /\ c.calibrations = {}
    /\ ~c.monophyly
    /\ ~c.starting_tree
    /\ c.tree_prior = "yule"
    /\ c.sample_topology
    /\ c.sample_branch_lengths

TopologyIds == { Lit("SubtreeSlide.t:beastlingTree"), Lit("narrow.t:beastlingTree"),
                 Lit("wide.t:beastlingTree"), Lit("WilsonBalding.t:beastlingTree") }

ScenarioBasics(d) ==
    /\ Cardinality(Tagged(d, "init")) = 1
    /\ \A i \in Tagged(d, "init") :
          /\ d[i].spec = "beast.evolution.tree.RandomTree"
          /\ Lit("constraints") \notin d[i].refs
    /\ Cardinality(Where(d, BirthRateId)) = 1
    /\ \A i \in Where(d, BirthRateId) :
          /\ d[i].sec = "state"
          /\ d[i].name = "stateNode"
          /\ d[i].text = Str("1.0")
    /\ Cardinality(Where(d, Lit("YuleModel.t:beastlingTree"))) = 1
    /\ \A i \in Where(d, Lit("YuleModel.t:beastlingTree")) :
          d[i].spec = "beast.evolution.speciation.YuleModel"
    /\ \A id \in TopologyIds :
          /\ Cardinality(Where(d, id)) = 1
          /\ \A i \in Where(d, id) : d[i].tag = "operator"

\* the claim as stated: the scenario's document has no UpDown operator
C4_ScenarioNoUpDown ==
    (Built /\ Scenario(cfg)) =>
        /\ ScenarioBasics(doc)
        /\ Where(doc, Lit("UpDown")) = {}

\* C4: the scenario's document has one unconstrained RandomTree
\* initializer, one birthRate state node with text 1.0, the standard
\* YuleModel, the four topology operators, and one UpDown operator that
\* links the tree and the birth rate only (no clock rate).
C4_Scenario ==
    (Built /\ Scenario(cfg)) =>
        /\ ScenarioBasics(doc)
        /\ Cardinality(Where(doc, Lit("UpDown"))) = 1
        /\ \A i \in Where(doc, Lit("UpDown")) :
              /\ Cardinality(Children(doc, i)) = 2
              /\ \A j \in Children(doc, i) :
                    doc[j].idref \in {TreeId, BirthRateId}

C4_Witness ==
    /\ Built
    /\ Scenario(cfg)
    /\ Where(doc, Lit("UpDown")) # {}

(***************************************************************************)
(* C5                                                                      *)
(***************************************************************************)
\* the add_init step has run
PastInit ==
    \/ pc \in {"distributions", "monophyly", "calibrations", "tree_prior",
               "likelihood", "operators", "loggers", "built", "done"}
    \/ pc = "error" /\ \E i \in DOMAIN doc : doc[i].sec = "posterior"

HasUniform(c) == \E cal \in c.calibrations : cal.dist = "uniform"

\* the priority as the claim states it
ClaimedInit(c) ==
    IF c.starting_tree THEN "beast.util.TreeParser"
    ELSE IF c.monophyly /\ Len(c.languages) >= 3 /\ HasUniform(c)
    THEN "beast.evolution.tree.SimpleRandomTree"
    ELSE IF c.monophyly THEN "beast.evolution.tree.ConstrainedRandomTree"
    ELSE "beast.evolution.tree.RandomTree"

\* the priority with monophyly tested before the uniform calibrations
AmendedInit(c) ==
    IF c.starting_tree THEN "beast.util.TreeParser"
    ELSE IF c.monophyly /\ Len(c.languages) >= 3
    THEN "beast.evolution.tree.ConstrainedRandomTree"
    ELSE IF HasUniform(c) THEN "beast.evolution.tree.SimpleRandomTree"
    ELSE "beast.evolution.tree.RandomTree"

OneInit(d, spec) ==
    /\ Cardinality(Tagged(d, "init")) = 1
    /\ \A i \in Tagged(d, "init") : d[i].spec = spec

\* the claim as stated
C5_ClaimedInitPriority == PastInit => OneInit(doc, ClaimedInit(cfg))

\* C5: exactly one init element is emitted, chosen in this order: a
\* starting tree if given; otherwise ConstrainedRandomTree if monophyly is
\* enabled with at least 3 taxa; otherwise SimpleRandomTree if some
\* calibration is uniform; otherwise RandomTree.
C5_InitPriority ==
    /\ PastInit => OneInit(doc, AmendedInit(cfg))
    /\ ~PastInit => Tagged(doc, "init") = {}

C5_Witness ==
    /\ pc = "distributions"
    /\ ~cfg.starting_tree
    /\ cfg.monophyly
    /\ Len(cfg.languages) >= 3
    /\ HasUniform(cfg)
    /\ \E i \in Tagged(doc, "init") :
          doc[i].spec = "beast.evolution.tree.ConstrainedRandomTree"

(***************************************************************************)
(* C6                                                                      *)
(***************************************************************************)
\* a calibration the claim counts: normal or lognormal, more than one taxon
Counted(cal) == cal.dist \in {"normal", "lognormal"} /\ Len(cal.langs) > 1

\* the sum over S of (ln(n) + 0.5772156649 - 1) / m in units of 1e-8, with n
\* the total number of taxa when total > 0 and the clade's size otherwise
RECURSIVE RateSum(_, _)
RateSum(S, total) ==
    IF S = {} THEN 0
    ELSE LET c == CHOOSE c \in S : TRUE
         IN  (HFix(IF total > 0 THEN total ELSE Len(c.langs)) \div c.mid)
             + RateSum(S \ {c}, total)

\* b (in units of 1e-4) is x (in units of 1e-8) rounded to 4 decimals
RoundsTo(x, b) == b * 10000 - 5000 <= x /\ x < b * 10000 + 5000

\* q (in units of 1e-4) is h / b rounded to 4 decimals
QuotientRoundsTo(h, b, q) == 2 * q * b - b <= 2 * h /\ 2 * h < 2 * q * b + b

EstimateMatches(total) ==
    LET U == {c \in cfg.calibrations : Counted(c)}
    IN  /\ (pc = "state" /\ U # {}) => est.has_height
        /\ est.has_height =>
              /\ U # {}
              /\ est.has_birth
              /\ RoundsTo(RateSum(U, total) \div Cardinality(U), est.birth)
              /\ QuotientRoundsTo(HFix(Len(cfg.languages)), est.birth, est.height)

\* the claim as stated: every candidate uses the total number of taxa
C6_EstimateFromTotalTaxa == EstimateMatches(Len(cfg.languages))

\* C6: each normal or lognormal calibration of more than one taxon
\* contributes (ln(k) + 0.5772156649 - 1) / m with k the number of taxa of
\* its own clade; the birth rate is the mean of these rounded to 4
\* decimals, and the tree height is (ln(n) + 0.5772156649 - 1) / birth_rate
\* with n the total number of taxa, rounded to 4 decimals.
C6_EstimateFromCladeSize == EstimateMatches(0)

C6_Witness ==
    /\ pc = "state"
    /\ est.has_height
    /\ Cardinality({c \in cfg.calibrations : Counted(c)}) = 2
    /\ \E c \in cfg.calibrations : Counted(c) /\ Len(c.langs) # Len(cfg.languages)

(***************************************************************************)
(* C7                                                                      *)
(***************************************************************************)
NoneUsable(c) ==
    \A cal \in c.calibrations :
        Len(cal.langs) = 1 \/ cal.dist \notin {"normal", "lognormal"}

\* estimate_tree_height raised: the build stopped after the run element
\* was added and before add_state
EstimateFailed ==
    /\ pc = "error"
    /\ Where(doc, Lit("mcmc")) # {}
    /\ Where(doc, Lit("state")) = {}

\* C7: when every calibration is single-taxon or neither normal nor
\* lognormal (or there is none), the estimate is absent for the birth rate
\* and for the tree height (the estimator raises nothing), a yule or
\* birthdeath document's birthRate state node has text 1.0, and no
\* initializer has a rootHeight.
C7_NoEstimateFallback ==
    NoneUsable(cfg) =>
        /\ ~EstimateFailed
        /\ ~est.has_birth /\ ~est.has_height
        /\ \A i \in Where(doc, BirthRateId) : doc[i].text = Str("1.0")
        /\ (Built /\ cfg.tree_prior \in {"yule", "birthdeath"})
              => \E i \in Where(doc, BirthRateId) :
                    doc[i].sec = "state" /\ doc[i].name = "stateNode"
        /\ \A i \in Tagged(doc, "init") : doc[i].rootHeight = NoTxt

C7_Witness ==
    /\ Built
    /\ NoneUsable(cfg)
    /\ cfg.tree_prior = "yule"
    /\ \E cal \in cfg.calibrations : Len(cal.langs) = 1 /\ cal.dist = "normal"
    /\ \E cal \in cfg.calibrations : cal.dist = "uniform"

(***************************************************************************)
(* C8                                                                      *)
(***************************************************************************)
\* the name is none of the four, in whatever case it is written
UnknownTreePrior(c) ==
    Lower(c.tree_prior) \notin {"yule", "birthdeath", "coalescent", "uniform"}

\* C8: with a tree-prior name that is none of yule, birthdeath, coalescent,
\* uniform (names are compared without regard to case), the build stops
\* with an error at add_tree_prior at the latest: the constructor never
\* returns the object, and nothing is written.
C8_UnknownTreePriorAborts ==
    UnknownTreePrior(cfg) =>
        /\ pc \notin {"likelihood", "operators", "loggers", "built", "done"}
        /\ ~obj
        /\ out = <<>>
        /\ pc = "error" => err # ""

C8_Witness ==
    /\ UnknownTreePrior(cfg)
    /\ pc = "error"
    /\ err = "ValueError"
    /\ \E i \in DOMAIN doc : doc[i].sec = "prior"
    /\ ~obj
    /\ out = <<>>

(***************************************************************************)
(* C9 (under SpecTS)                                                       *)
(***************************************************************************)
\* C9: a call of add_taxon_set with no taxa fails its assertion, appends no
\* element under the parent and leaves the registry as it was.
C9_EmptyTaxonSet ==
    \A i \in DOMAIN ts :
        ts[i].langs = <<>> =>
            /\ ~ts[i].ok
            /\ ts[i].elems = <<>>
            /\ ts[i].after = ts[i].before
            /\ i = Len(ts)
            /\ pc = "error" /\ err = "AssertionError"
            /\ reg = ts[i].before

C9_Witness ==
    /\ Len(ts) >= 2
    /\ ts[Len(ts)].langs = <<>>
    /\ ts[Len(ts)].before # <<>>
    /\ doc # <<>>

(***************************************************************************)
(* C10                                                                     *)
(***************************************************************************)
\* C10: a calibration with no taxa raises no error in the build and
\* contributes no MRCA prior element.
C10_EmptyCalibrationDropped ==
    (TreePriorKnown(cfg.tree_prior)
        /\ \E cal \in cfg.calibrations : cal.langs = <<>>) =>
        /\ pc # "error"
        /\ \A cal \in cfg.calibrations :
              cal.langs = <<>> => Where(doc, MRCAId(cal.clade)) = {}

(***************************************************************************)
(* C11                                                                     *)
(***************************************************************************)
BranchLengthIds == { Lit("UniformOperator.t:beastlingTree"),
                     Lit("treeScaler.t:beastlingTree"),
                     Lit("treeRootScaler.t:beastlingTree") }

\* element i is an operator of the run
IsOperator(d, i) ==
    /\ d[i].tag = "operator"
    /\ \E r \in Where(d, Lit("mcmc")) : i \in Children(d, r)

Emitted(d, id) == \E i \in Where(d, id) : IsOperator(d, i)

ClockRateIds(c) == { c.clocks[i].mean_rate_id : i \in DOMAIN c.clocks }

\* the UpDown operator has a clock-rate parameter among its children
UpDownLinksClock(d, c) ==
    \E i \in Where(d, Lit("UpDown")) :
        \E j \in Children(d, i) : d[j].idref \in ClockRateIds(c)

\* C11: in a built document each of the four topology operators is present
\* if and only if sample_topology is set; each of Uniform, treeScaler and
\* treeRootScaler if and only if sample_branch_lengths is set; an UpDown
\* operator only when sample_branch_lengths is set and the tree prior is
\* yule or birthdeath; and a clock-rate parameter under UpDown only when
\* there is at least one calibration.
C11_OperatorGating ==
    Built =>
        /\ \A id \in TopologyIds : Emitted(doc, id) <=> cfg.sample_topology
        /\ \A id \in BranchLengthIds : Emitted(doc, id) <=> cfg.sample_branch_lengths
        /\ Where(doc, Lit("UpDown")) # {} =>
              /\ cfg.sample_branch_lengths
              /\ cfg.tree_prior \in {"yule", "birthdeath"}
        /\ UpDownLinksClock(doc, cfg) => cfg.calibrations # {}

C11_Witness ==
    /\ Built
    /\ cfg.sample_branch_lengths
    /\ cfg.tree_prior = "birthdeath"
    /\ cfg.calibrations # {}
    /\ UpDownLinksClock(doc, cfg)

(***************************************************************************)
(* C12                                                                     *)
(***************************************************************************)
\* one calibration's set of taxa contains the other's
Nested(cals) ==
    \E c1, c2 \in cals :
        c1 # c2 /\ Range(c1.langs) \subseteq Range(c2.langs)

ClaimedYule(c) ==
    IF \/ Cardinality(c.calibrations) = 1
       \/ Cardinality(c.calibrations) = 2 /\ Nested(c.calibrations)
    THEN "beast.evolution.speciation.CalibratedYuleModel"
    ELSE "beast.evolution.speciation.YuleModel"

\* C12: the Yule tree prior of a built document is the calibrated model
\* exactly when there is one calibration, or there are two and the set of
\* taxa of one contains that of the other (repeated labels in langs and
\* clade names play no part); otherwise it is the standard model.
C12_YuleVariantBySetContainment ==
    (Built /\ Lower(cfg.tree_prior) = "yule") =>
        /\ Cardinality(Where(doc, Lit("YuleModel.t:beastlingTree"))) = 1
        /\ \A i \in Where(doc, Lit("YuleModel.t:beastlingTree")) :
              doc[i].spec = ClaimedYule(cfg)

(***************************************************************************)
(* C13                                                                     *)
(***************************************************************************)
\* the place of a child of the root in the claimed order
RootRank(e) ==
    CASE e.tag = "comment" /\ e.text = BeastlingComment.text -> 1
      [] e.tag = "comment" -> 2
      [] e.tag = "map" -> 3
      [] e.tag = "run" -> 5
      [] OTHER -> 4

\* the place of a child of the mcmc element in the claimed order; the
\* posterior holds the prior and the likelihood
SectionRank(e) ==
    CASE e.tag = "state" -> 1
      [] e.tag = "init" -> 2
      [] e.tag = "distribution" -> 3
      [] e.tag = "operator" -> 5
      [] e.tag = "logger" -> 6
      [] OTHER -> 0

PosteriorRank(e) ==
    CASE e.id = Lit("prior") -> 3
      [] e.id = Lit("likelihood") -> 4
      [] OTHER -> 0

InOrder(d, S, rank(_)) ==
    /\ \A i \in S : rank(d[i]) # 0
    /\ \A i, j \in S : i < j => rank(d[i]) <= rank(d[j])

\* the one element of d with this tag among S
TheOne(d, S, tag) == Cardinality({i \in S : d[i].tag = tag}) = 1

\* C13: at every moment of a build the root's children are in the order
\* provenance comment, embedded data-file comments, class-alias maps, run
\* envelope, and the children of the mcmc element (the run itself, or the
\* element nested in the path sampler) are in the order state,
\* initializer, posterior (prior, then likelihood), operators, loggers;
\* so no element of a later section is in the document before the last
\* element of an earlier one.  A built document has each section once.
C13_EmissionOrder ==
    doc # <<>> =>
        /\ doc[1].tag = "beast" /\ doc[1].depth = 0
        /\ \A i \in 2..Len(doc) : doc[i].depth > 0
        /\ InOrder(doc, Children(doc, 1), RootRank)
        /\ \A r \in Where(doc, Lit("mcmc")) :
              /\ InOrder(doc, Children(doc, r), SectionRank)
              /\ \A i \in Children(doc, r) :
                    doc[i].tag = "distribution" =>
                        /\ doc[i].id = Lit("posterior")
                        /\ InOrder(doc, Children(doc, i), PosteriorRank)
        /\ Built =>
              /\ RootRank(doc[2]) = 1
              /\ TheOne(doc, Children(doc, 1), "run")
              /\ Cardinality(Where(doc, Lit("mcmc"))) = 1
              /\ \A r \in Where(doc, Lit("mcmc")) :
                    /\ doc[r].depth = (IF cfg.path_sampling THEN 2 ELSE 1)
                    /\ \A k \in (r + 1)..Len(doc) : doc[k].depth > doc[r].depth
                    /\ TheOne(doc, Children(doc, r), "state")
                    /\ TheOne(doc, Children(doc, r), "init")
                    /\ TheOne(doc, Children(doc, r), "distribution")
                    /\ \A i \in Children(doc, r) :
                          doc[i].tag = "distribution" =>
                              {doc[j].id : j \in Children(doc, i)}
                                  = {Lit("prior"), Lit("likelihood")}

C13_Witness ==
    /\ Built
    /\ cfg.path_sampling
    /\ Cardinality({i \in Children(doc, 1) : RootRank(doc[i]) = 2}) = 3
    /\ \E i \in DOMAIN doc : doc[i].tag = "operator"
    /\ \E i \in DOMAIN doc : doc[i].tag = "logger"

(***************************************************************************)
(* C14 (under SpecW)                                                       *)
(***************************************************************************)
\* b is a but for texts and tails that are blank in a and blank in b
SameButWhitespace(a, b) ==
    /\ Len(a) = Len(b)
    /\ \A i \in DOMAIN a :
          /\ [a[i] EXCEPT !.text = NoTxt, !.tail = NoTxt]
                = [b[i] EXCEPT !.text = NoTxt, !.tail = NoTxt]
          /\ IF Blank(a[i].text) THEN Blank(b[i].text) ELSE b[i].text = a[i].text
          /\ IF Blank(a[i].tail) THEN Blank(b[i].tail) ELSE b[i].tail = a[i].tail

\* the tree as call k left it
TreeAfter(k) == IF k < Len(out) THEN out[k + 1].tree ELSE doc

\* C14: all calls of write_file and tostring on one built document give
\* the same bytes; after the first call a further indentation pass leaves
\* the tree as it is; and a call changes nothing of the tree but texts and
\* tails that were blank, which stay blank.
C14_SerializerIdempotent ==
    /\ \A i, j \in DOMAIN out : out[i].bytes = out[j].bytes
    /\ out # <<>> => Indent(doc) = doc
    /\ \A k \in DOMAIN out :
          /\ SameButWhitespace(out[k].tree, TreeAfter(k))
          /\ out[k].bytes = Serialize(TreeAfter(k))

C14_Witness ==
    /\ Len(out) >= 2
    /\ out[1].call = "tostring"
    /\ out[2].call = "write_file"
    /\ cfg.path_sampling
    /\ out[1].tree # out[2].tree
    /\ \E i \in DOMAIN doc : ~Blank(doc[i].text) /\ HasChildren(doc, i)

(***************************************************************************)
(* C15 (under SpecW)                                                       *)
(***************************************************************************)
\* the bytes are the declaration followed by every element of the tree d
Complete(bytes, d) ==
    /\ Len(bytes) = Len(d) + 1
    /\ bytes[1] = XmlDeclaration
    /\ \A i \in DOMAIN d :
          /\ bytes[i + 1][1] = d[i].tag
          /\ bytes[i + 1][3] = d[i].id
          /\ bytes[i + 1][4] = d[i].idref

\* C15: a call of write_file with 'stdout' or '-' sends the complete
\* document, XML declaration first, to standard output and opens no file;
\* a call with another name opens and writes that file, and a call
\* without a name the file basename + '.xml'.
C15_OutputTarget ==
    \A k \in DOMAIN out :
        out[k].call = "write_file" =>
            /\ Complete(out[k].bytes, out[k].tree)
            /\ IF out[k].filename \in {"stdout", "-"}
               THEN out[k].stream = "stdout" /\ out[k].opened = {}
               ELSE LET f == IF out[k].filename = ""
                             THEN cfg.basename \o ".xml" ELSE out[k].filename
                    IN  out[k].stream = f /\ out[k].opened = {f}

C15_Witness ==
    /\ Len(out) >= 2
    /\ out[1].call = "write_file" /\ out[1].filename = "-"
    /\ out[1].stream = "stdout"
    /\ out[2].call = "write_file" /\ out[2].filename = ""
    /\ out[2].stream = "beastling.xml"

(***************************************************************************)
(* C16                                                                     *)
(***************************************************************************)
\* C16: no step of a build changes the configuration or any field of the
\* calibrations, clocks and models it holds.
C16_ConfigReadOnly == [][cfg' = cfg]_vars

(***************************************************************************)
(* C17 (under SpecCM)                                                      *)
(***************************************************************************)
\* C17: when the model configuration sets rate_variation, the constructor
\* of CorrelatedModel raises IncompatibleSettingOptions before
\* BaseModel.__init__ runs: no model comes to exist, the configuration
\* holds none, and no element of a document is ever created.
C17_IncompatibleRejectedEarly ==
    Truthy(mc.rate_variation) =>
        /\ pc \in {"model_new", "error"}
        /\ pc = "error" => err = "IncompatibleSettingOptions"
        /\ ~mc.base_init /\ ~mc.made
        /\ cfg.models = <<>>
        /\ doc = <<>>
        /\ ~obj

C17_Witness ==
    /\ pc = "error"
    /\ err = "IncompatibleSettingOptions"
    /\ mc.rate_variation = "'yes'"
    /\ ~mc.base_init
    /\ doc = <<>>

(***************************************************************************)
(* C18                                                                     *)
(***************************************************************************)
\* the i-th entry of the log opens a file that the log reads next and then
\* closes
ReadAndClosed(l, i) ==
    /\ i + 2 <= Len(l)
    /\ l[i + 1] = [op |-> "read", file |-> l[i].file]
    /\ l[i + 2] = [op |-> "close", file |-> l[i].file]

\* the build is past build_xml
PastBuildXml == pc \notin {"new", "build_xml", "error"} \/ Where(doc, Lit("mcmc")) # {}

\* C18: every data file a build opens is read and then closed, also when
\* the read fails; and a build that is to embed a missing file stops with
\* an error in build_xml, so that no document results.
C18_EmbeddedFilesScoped ==
    /\ \A i \in DOMAIN fio : fio[i].op = "open" => ReadAndClosed(fio, i)
    /\ (cfg.embed_data
           /\ \E i \in DOMAIN EmbeddedNames(cfg) :
                  files[EmbeddedNames(cfg)[i]] = "missing")
        => ~PastBuildXml /\ ~obj


(***************************************************************************)
(* C19: the tight partition and its bracket string                         *)
(***************************************************************************)
RECURSIVE Leaves(_)
RECURSIVE LeavesOf(_)
LeavesOf(kids) ==
    IF kids = <<>> THEN <<>> ELSE Leaves(kids[1]) \o LeavesOf(Tail(kids))

\* the leaf labels of a node, left to right
Leaves(node) ==
    IF node.kind = "Leaf" THEN <<node.label>> ELSE LeavesOf(node.kids)

IsBracket(tok) == tok \in {"(", ")", ","}

\* the bracket depth after each prefix never falls below 0 and ends at 0
RECURSIVE Balance(_, _)
Balance(s, open) ==
    IF open < 0 THEN FALSE
    ELSE IF s = <<>> THEN open = 0
    ELSE Balance(Tail(s), IF Head(s) = "(" THEN open + 1
                          ELSE IF Head(s) = ")" THEN open - 1 ELSE open)

\* the leaf tokens of a bracket string: its longest runs without a bracket
\* or a comma
RECURSIVE LeafTokens(_, _)
LeafTokens(s, run) ==
    IF s = <<>> THEN (IF run = <<>> THEN <<>> ELSE <<run>>)
    ELSE IF IsBracket(Head(s))
    THEN (IF run = <<>> THEN <<>> ELSE <<run>>) \o LeafTokens(Tail(s), <<>>)
    ELSE LeafTokens(Tail(s), Append(run, Head(s)))

ExactlyOnce(labels, taxa) ==
    /\ Len(labels) = Cardinality(taxa)
    /\ Range(labels) = taxa

\* C19: the tight partition of any set of taxa under any classification has
\* each taxon as a leaf exactly once and no other leaf, and its bracket
\* string has balanced brackets and exactly |taxa| leaf tokens, each taxon
\* once
C19_TightPartitionExact ==
    /\ pc \in {"newick", "made"} => ExactlyOnce(Leaves(part.structure), part.taxa)
    /\ pc = "made" =>
         /\ Balance(part.newick, 0)
         /\ ExactlyOnce(LeafTokens(part.newick, <<>>), part.taxa)

\* three taxa that disagree at the start depth, split into nested groups
C19_Witness ==
    /\ pc = "made"
    /\ Cardinality(part.taxa) = 3
    /\ NestingDepth(part.structure) = 2
    /\ \E t \in part.taxa :
         Entry(part.classifications, t, part.start_depth) = ""
    /\ Len(part.structure.kids) >= 2


(***************************************************************************)
(* C20: what the random initializers carry                                 *)
(***************************************************************************)
RandomInits == {"beast.evolution.tree.RandomTree",
                "beast.evolution.tree.SimpleRandomTree",
                "beast.evolution.tree.ConstrainedRandomTree"}

\* element i has a ConstantPopulation populationModel child
SeedsPopulation(d, i) ==
    \E j \in Children(d, i) : /\ d[j].tag = "populationModel"
                              /\ d[j].spec = "ConstantPopulation"

\* rootHeight is set exactly when a birth-rate estimate exists, to the
\* estimated tree height
RootHeightHint(d, i) ==
    /\ d[i].rootHeight # NoTxt <=> est.has_birth
    /\ est.has_birth => /\ est.has_height
                        /\ d[i].rootHeight = FloatStr(est.height)

\* the claim as stated: every random initializer seeds a population model
C20_EveryRandomInitSeeded ==
    (PastInit /\ ~cfg.starting_tree) =>
        /\ Tagged(doc, "init") # {}
        /\ \A i \in Tagged(doc, "init") :
             /\ doc[i].spec \in RandomInits
             /\ SeedsPopulation(doc, i)
             /\ RootHeightHint(doc, i)

\* C20: whenever no starting tree is given, the random initializer carries
\* a rootHeight attribute if and only if a birth-rate estimate exists, its
\* value being the estimated tree height; RandomTree and
\* ConstrainedRandomTree contain a constant-size population model child,
\* SimpleRandomTree has no child at all.
C20_RandomInitContents ==
    (PastInit /\ ~cfg.starting_tree) =>
        /\ Tagged(doc, "init") # {}
        /\ \A i \in Tagged(doc, "init") :
             /\ doc[i].spec \in RandomInits
             /\ RootHeightHint(doc, i)
             /\ IF doc[i].spec = "beast.evolution.tree.SimpleRandomTree"
                THEN Children(doc, i) = {}
                ELSE SeedsPopulation(doc, i)

\* a SimpleRandomTree with a root height hint and no population model
C20_Witness ==
    /\ PastInit
    /\ ~cfg.starting_tree
    /\ est.has_birth
    /\ \E i \in Tagged(doc, "init") :
         /\ doc[i].spec = "beast.evolution.tree.SimpleRandomTree"
         /\ doc[i].rootHeight = FloatStr(est.height)
         /\ ~SeedsPopulation(doc, i)

(***************************************************************************)
(* C21: the tree-prior distribution of each bundle                         *)
(***************************************************************************)
\* the add_tree_prior step has run and did not raise
PastTreePrior ==
    pc \in {"likelihood", "operators", "loggers", "built", "done"}

\* the distribution elements of the prior section that are over the tree
\* (they reference it themselves or through a child) and are neither a
\* calibration nor the monophyly constraint
TreePriorDistributions(d) ==
    { i \in DOMAIN d :
        /\ d[i].sec = "prior"
        /\ d[i].tag = "distribution"
        /\ d[i].spec \notin {"util.CompoundDistribution",
                             "beast.math.distributions.MRCAPrior",
                             "beast.math.distributions.MultiMonophyleticConstraint"}
        /\ \/ TreeId \in RefsAt(d, i)
           \/ \E j \in Children(d, i) : TreeId \in RefsAt(d, j) }

\* C21: with 'birthdeath' the prior section holds a tree-prior distribution
\* over the tree that references the birthRate, deathRate and sampling
\* state nodes, next to the three parameter priors; 'yule' and 'coalescent'
\* each contribute their tree-prior distribution, 'uniform' none
C21_BirthDeathBundle ==
    PastTreePrior =>
        /\ Lower(cfg.tree_prior) = "birthdeath" =>
              /\ \E i \in TreePriorDistributions(doc) :
                    {BirthRateId, DeathRateId, SamplingId} \subseteq RefsAt(doc, i)
              /\ \A x \in {BirthRateId, DeathRateId, SamplingId} :
                    \E i \in DOMAIN doc : doc[i].tag = "prior" /\ x \in doc[i].refs
        /\ Lower(cfg.tree_prior) \in {"yule", "coalescent"} =>
              Cardinality(TreePriorDistributions(doc)) = 1
        /\ Lower(cfg.tree_prior) = "uniform" =>
              TreePriorDistributions(doc) = {}

(***************************************************************************)
(* C22: the shared rate-exchange operator of a clock                       *)
(***************************************************************************)
\* the add_operators step has run and did not raise
PastOperators == pc \in {"loggers", "built", "done"}

\* the models with rate variation that use the clock k
RateModels(c, k) ==
    SelectSeq(c.models, LAMBDA m : m.rate_variation /\ m.clock = k.name)

\* C22: for every clock exactly one featureClockRateDeltaExchanger operator
\* is emitted if some model with rate variation uses the clock and none
\* otherwise; it has a weightvector child exactly if some weight of those
\* models is not 1, whose dimension is the number of the weights and whose
\* text lists them in model order
C22_SharedDeltaExchanger ==
    PastOperators =>
        /\ \A n \in DOMAIN cfg.clocks :
             LET k == cfg.clocks[n]
                 cm == RateModels(cfg, k)
                 ws == Flatten([i \in DOMAIN cm |-> cm[i].weights])
                 ops == Where(doc, Lit("featureClockRateDeltaExchanger:") \o k.name)
             IN  /\ Cardinality(ops) = (IF cm = <<>> THEN 0 ELSE 1)
                 /\ \A i \in ops :
                      LET vs == {j \in Children(doc, i) : doc[j].tag = "weightvector"}
                      IN  /\ doc[i].spec = "DeltaExchangeOperator"
                          /\ vs # {} <=> \E w \in Range(ws) : w # 1
                          /\ Cardinality(vs) <= 1
                          /\ \A j \in vs : /\ doc[j].dimension = Len(ws)
                                           /\ doc[j].text = Str(JoinStr(ws))
        /\ \A i \in DOMAIN doc :
             doc[i].spec = "DeltaExchangeOperator" =>
                \E n \in DOMAIN cfg.clocks :
                    doc[i].id = Lit("featureClockRateDeltaExchanger:")
                                    \o cfg.clocks[n].name

\* two clocks, three models with rate variation, two of them on one clock
\* and with a weight that is not 1: two operators, two weight vectors
C22_Witness ==
    /\ PastOperators
    /\ Len(cfg.clocks) = 2
    /\ Len(cfg.models) = 3
    /\ \A i \in DOMAIN cfg.models : cfg.models[i].rate_variation
    /\ Cardinality({i \in DOMAIN doc : doc[i].spec = "DeltaExchangeOperator"}) = 2
    /\ \E j \in DOMAIN doc : /\ doc[j].tag = "weightvector"
                             /\ doc[j].dimension = 3
                             /\ doc[j].text = Str("3 1 2")

(***************************************************************************)
(* C23: the tip-date operators                                             *)
(***************************************************************************)
\* the tip calibrations whose dates are resampled
NonPointTips(c) == {cal \in c.tip_calibrations : cal.dist # "point"}

TipWalkers(d) == {i \in DOMAIN d : d[i].spec = "TipDatesRandomWalker"}

\* the taxa of the taxon set that is the child j of an operator: those it
\* lists, or those recorded under the identifier it refers to
TaxaOfSet(d, r, j) ==
    IF d[j].idref # None
    THEN {t \in Range(Languages(MaxTaxa)) :
            \E n \in DOMAIN r : r[n].label = d[j].idref /\ r[n].taxa = <<t>>}
    ELSE UNION {RefsAt(d, k) : k \in Children(d, j)}

\* C23: a TipDatesRandomWalker operator is emitted for a taxon exactly if
\* branch lengths are sampled and the taxon has a tip calibration that is
\* not a point; there is one operator for each such tip calibration, and
\* each holds one taxon set, defined or referred to, of just that taxon
C23_TipDateOperators ==
    PastOperators =>
        /\ \A t \in Range(cfg.languages) :
             (\E i \in TipWalkers(doc) :
                 doc[i].id = Lit("TipDatesandomWalker:") \o t)
             <=> /\ cfg.sample_branch_lengths
                 /\ \E cal \in NonPointTips(cfg) : cal.langs[1] = t
        /\ Cardinality(TipWalkers(doc)) =
              (IF cfg.sample_branch_lengths
               THEN Cardinality(NonPointTips(cfg)) ELSE 0)
        /\ \A i \in TipWalkers(doc) :
             /\ doc[i].tag = "operator"
             /\ Cardinality(Children(doc, i)) = 1
             /\ \A j \in Children(doc, i) :
                  /\ doc[j].tag = "taxonset"
                  /\ \E t \in Range(cfg.languages) :
                       /\ doc[i].id = Lit("TipDatesandomWalker:") \o t
                       /\ TaxaOfSet(doc, reg, j) = {t}

C23_Witness ==
    /\ PastOperators
    /\ cfg.sample_branch_lengths
    /\ \E cal \in cfg.tip_calibrations : cal.dist = "point"
    /\ Cardinality(TipWalkers(doc)) = 1
    /\ \E i \in TipWalkers(doc) : \E j \in Children(doc, i) :
          doc[j].idref = Lit("tx_") \o Taxon(2)

(***************************************************************************)
(* C24 (under SpecTS)                                                      *)
(***************************************************************************)
\* call i defined a new set whose only member is the requested label
DefinedSingleton(i) ==
    /\ ts[i].ok
    /\ ts[i].elems[1].id # None
    /\ Range(ts[i].langs) = {ts[i].label}

\* C24: a call that defines a new set whose only member equals the
\* requested label emits the taxonset under the label prefixed with 'tx_'
\* and records it under that identifier, and every later call for the same
\* singleton emits only a reference to the prefixed identifier
C24_SingletonDisambiguated ==
    \A i \in DOMAIN ts :
        DefinedSingleton(i) =>
            /\ ts[i].elems[1].id = Lit("tx_") \o ts[i].label
            /\ \E n \in DOMAIN ts[i].after :
                  /\ ts[i].after[n].label = Lit("tx_") \o ts[i].label
                  /\ ts[i].after[n].taxa = <<ts[i].label>>
            /\ \A j \in DOMAIN ts :
                  (j > i /\ ts[j].ok /\ Range(ts[j].langs) = {ts[i].label}) =>
                      /\ Len(ts[j].elems) = 1
                      /\ ts[j].elems[1].id = None
                      /\ ts[j].elems[1].idref = Lit("tx_") \o ts[i].label

(***************************************************************************)
(* C25 (under SpecTS)                                                      *)
(***************************************************************************)
\* the taxa the taxonset element at i of d lists
Members(d, i) == UNION {RefsAt(d, k) \cup IdsAt(d, k) : k \in Children(d, i)}

IsSortedSet(sl) ==
    /\ sl # <<>>
    /\ \A m, n \in DOMAIN sl : m < n => LexLess(sl[m], sl[n])

\* C25: no add_taxon_set call removes a registry entry or changes the taxa
\* recorded under an identifier, and the taxa recorded under each
\* identifier are the members of the one taxonset element defined with
\* that identifier, as a non-empty, sorted, duplicate-free list
C25_RegistryAppendOnly ==
    /\ \A i \in DOMAIN ts : \A n \in DOMAIN ts[i].before :
          \E m \in DOMAIN ts[i].after : ts[i].after[m] = ts[i].before[n]
    /\ \A n \in DOMAIN reg :
          /\ IsSortedSet(reg[n].taxa)
          /\ LET defs == {i \in Where(doc, reg[n].label) :
                             doc[i].tag = "taxonset"}
             IN  /\ Cardinality(defs) = 1
                 /\ \A i \in defs : Members(doc, i) = Range(reg[n].taxa)

(***************************************************************************)
(* FossilizedBirthDeathTree: the state nodes of the FBD tree prior         *)
(***************************************************************************)
\* add_parameters on an empty state element, for the estimates e of the
\* prior; typo is what reading self.treehight_estimate gives: "absent"
\* when the object has no such attribute, else the text of its value.
\* result: the parameters appended and the error raised
FBDParameters(e, typo) ==
    LET P(id, t) == WithText(StateNode(El("state", 3, "parameter", Lit(id), "")), t)
        div == P("diversificationRateFBD.t:beastlingTree",
                 IF e.has_birth THEN FloatStr(e.birth) ELSE Str("0.001"))
        origin == P("originFBD.t:beastlingTree", Str("10000.0"))
        rest == << P("samplingProportionFBD.t:beastlingTree", Str("0.5")),
                   P("turnoverFBD.t:beastlingTree", Str("0.5")),
                   P("rFBD.t:beastlingTree", Str("1.0")),
                   WithFlags(P("rhoFBD.t:beastlingTree", Str("1.0")),
                             {"estimate=false"}) >>
    IN  IF ~e.has_height
        THEN [err |-> "", state |-> <<div, origin>> \o rest]
        ELSE IF typo = "absent"
        THEN [err |-> "AttributeError", state |-> <<div, origin>>]
        ELSE [err |-> "",
              state |-> << WithText(div, IF typo = "None" THEN Str("None")
                                         ELSE FloatStr(e.height)),
                           origin >> \o rest]

\* a tree prior object before add_parameters: its two estimates are set
\* independently of each other, each None or a float of four decimals
InitFBD ==
    /\ cfg = DefaultCfg(MaxTaxa, "fbd", {})
    /\ pc = "fbd_new"
    /\ doc = <<>>
    /\ reg = <<>>
    /\ LET births == { Round4(HFix(n) \div m) : n \in 2..MaxTaxa, m \in {50, 100} }
           heights == { RoundQuot(HFix(n), b) : n \in 2..MaxTaxa, b \in births }
       IN  est \in { [has_birth |-> hb, birth |-> IF hb THEN b ELSE 0,
                      has_height |-> hh, height |-> IF hh THEN h ELSE 0] :
                       hb \in BOOLEAN, b \in births, hh \in BOOLEAN, h \in heights }
    /\ err = ""
    /\ obj = FALSE
    /\ out = <<>>
    /\ ts = <<>>
    /\ files = <<>>
    /\ fio = <<>>
    /\ mc = NoModelConfig
    /\ part = NoPart

\* FossilizedBirthDeathTree.add_parameters(state)
AddParameters ==
    /\ pc = "fbd_new"
    /\ \E typo \in {"absent", "None", "float"} :
         LET r == FBDParameters(est, typo)
         IN  /\ doc' = r.state
             /\ IF r.err # "" THEN Fail(r.err)
                ELSE pc' = "fbd_state" /\ err' = err
    /\ UNCHANGED <<cfg, reg, est, obj, out, ts, files, fio, mc, part>>

NextFBD == AddParameters

SpecFBD == InitFBD /\ [][NextFBD]_vars

\* C26: once add_parameters has returned or raised, it has raised nothing,
\* the diversification-rate parameter holds the birth-rate estimate when
\* there is one and 0.001 otherwise, and the origin parameter holds the
\* tree-height estimate when there is one and 10000.0 otherwise.
C26_FBDStartingValues ==
    pc \in {"fbd_state", "error"} =>
        /\ err = ""
        /\ \E i \in Where(doc, Lit("diversificationRateFBD.t:beastlingTree")) :
              doc[i].text = IF est.has_birth THEN FloatStr(est.birth) ELSE Str("0.001")
        /\ \E i \in Where(doc, Lit("originFBD.t:beastlingTree")) :
              doc[i].text = IF est.has_height THEN FloatStr(est.height)
                            ELSE Str("10000.0")

\* C27: in every built document no identifier is defined by two elements
\* (a plate over taxon definitions counts as one definition per member),
\* so no taxonset id equals a taxon id or another taxonset's id and no two
\* calibration priors share an id.
C27_IdsUnique ==
    Built => \A i, j \in DOMAIN doc : i # j => IdsAt(doc, i) \cap IdsAt(doc, j) = {}

\* C28: in every built document, each tree state node (birthRate, deathRate,
\* sampling, popSize) that an element of the prior section references is
\* declared in the state section and has a scale operator on it.
C28_TreePriorBundle ==
    Built =>
      \A id \in {BirthRateId, DeathRateId, SamplingId, PopSizeId} :
        (\E i \in DOMAIN doc : doc[i].sec = "prior" /\ id \in RefsAt(doc, i)) =>
          /\ \E j \in Where(doc, id) : doc[j].sec = "state"
          /\ \E k \in DOMAIN doc : /\ doc[k].tag = "operator"
                                   /\ doc[k].spec = "ScaleOperator"
                                   /\ id \in RefsAt(doc, k)

(***************************************************************************)
(* CorrelatedModel: the elements one model contributes to the sections     *)
(* the builder hands it (BaseModel's own elements are outside the sources) *)
(***************************************************************************)
\* a preprocessed model: its name, its languages, its sorted features with
\* valuecounts[trait] each, and max_n_rates and product(valuecounts)
InitCorrelated ==
    /\ cfg = DefaultCfg(MaxTaxa, "yule", {})
    /\ pc = "cm_state"
    /\ doc = <<>>
    /\ reg = <<>>
    /\ est = NoEstimate
    /\ err = ""
    /\ obj = FALSE
    /\ out = <<>>
    /\ ts = <<>>
    /\ files = <<>>
    /\ fio = <<>>
    /\ LET RECURSIVE Product(_), SumLess(_)
           Product(vs) == IF vs = <<>> THEN 1 ELSE Head(vs) * Product(Tail(vs))
           SumLess(vs) == IF vs = <<>> THEN 0 ELSE (Head(vs) - 1) + SumLess(Tail(vs))
       IN  \E name \in {<<"f">>, <<"g">>}, n \in 1..MaxTaxa,
              vs \in {<<1>>, <<2>>, <<3>>, <<2, 2>>, <<2, 3>>} :
             mc = [name |-> name, languages |-> Range(Languages(n)),
                   features |-> [i \in DOMAIN vs |-> << <<"p">>, <<"q">> >>[i]],
                   valuecounts |-> vs,
                   max_n_rates |-> Product(vs) * SumLess(vs),
                   states |-> Product(vs)]
    /\ part = NoPart

\* add_state
CorrelatedAddState ==
    /\ pc = "cm_state"
    /\ LET tn == mc.name \o Lit(":compound")
           P(id, spec, t) ==
               [WithText(StateNode(El("state", 1, "parameter", Lit(id) \o tn, spec)), t)
                   EXCEPT !.dimension = mc.max_n_rates]
       IN  doc' = doc \o
             << P("rawRates.s:", "", Str("1.0")),
                P("rateGroupings.s:", "beast.core.parameter.IntegerParameter",
                  Str(JoinStr([i \in 1..mc.max_n_rates |-> i - 1]))),
                P("rateGroupingSizes.s:", "beast.core.parameter.IntegerParameter",
                  Str("1")) >>
    /\ pc' = "cm_prior"
    /\ UNCHANGED <<cfg, reg, est, err, obj, out, ts, files, fio, mc, part>>

\* add_prior
CorrelatedAddPrior ==
    /\ pc = "cm_prior"
    /\ LET tn == mc.name \o Lit(":compound")
       IN  doc' = doc \o
             << [WithRefs(El("prior", 1, "prior", Lit("ratesPrior.s:") \o tn, ""),
                          {Lit("rawRates.s:") \o tn})
                    EXCEPT !.name = "distribution"],
                WithRefs(El("prior", 2, "distr",
                            Lit("Dirichlet:") \o tn \o Lit(".0.0"),
                            "parameterclone.helpers.RescaledDirichlet"),
                         {Lit("rateGroupingSizes.s:") \o tn}) >>
    /\ pc' = "cm_likelihood"
    /\ UNCHANGED <<cfg, reg, est, err, obj, out, ts, files, fio, mc, part>>

\* add_likelihood, with add_sitemodel and add_data; the sequences of the
\* data come in the iteration order of the set self.languages
CorrelatedAddLikelihood ==
    /\ pc = "cm_likelihood"
    /\ \E langs \in { p \in [1..Cardinality(mc.languages) -> mc.languages] :
                        Range(p) = mc.languages } :
         LET tn == mc.name \o Lit(":compound")
             L(depth, tag, id, spec) == El("likelihood", depth, tag, Lit(id) \o tn, spec)
             sitemodel ==
               << L(2, "siteModel", "SiteModel.", "SiteModel"),
                  L(3, "substModel", "substitutionmodel.s:",
                    "correlatedcharacters.polycharacter.CorrelatedSubstitutionModel"),
                  WithRefs(L(4, "rates", "actualRates.s:",
                             "parameterclone.selector.Selector"),
                           {Lit("rawRates.s:") \o tn, Lit("rateGroupings.s:") \o tn}),
                  WithIdref(El("likelihood", 4, "datatype", None, ""),
                            Lit("traitDataType.") \o tn),
                  L(4, "frequencies", "traitfreqs.s:", "Frequencies"),
                  [WithText(L(5, "parameter", "traitfrequencies.s:", ""),
                            [s |-> "1.0/", n |-> mc.states])
                      EXCEPT !.name = "frequencies", !.dimension = mc.states] >>
             data ==
               << El("likelihood", 2, "data", tn, "Alignment") >>
               \o [i \in DOMAIN langs |->
                     El("likelihood", 3, "sequence",
                        Lit("seq_") \o langs[i] \o Lit("_") \o tn, "")]
               \o << L(3, "userDataType", "traitDataType.",
                       "correlatedcharacters.polycharacter.CompoundDataType") >>
               \o [i \in DOMAIN mc.features |->
                     El("likelihood", 4, "components",
                        Lit("traitDataType.") \o tn \o Lit(":") \o mc.features[i],
                        "beast.evolution.datatype.UserDataType")]
         IN  doc' = doc \o
               << L(1, "distribution", "traitedtreeLikelihood.", "TreeLikelihood"),
                  WithIdref(El("likelihood", 2, "tree", None, ""), TreeId) >>
               \o sitemodel
               \o << WithRefs(L(2, "branchRateModel", "StrictClockModel.c:",
                                "beast.evolution.branchratemodel.StrictClockModel"),
                              {Lit("clockRate.c:") \o mc.name}) >>
               \o data
    /\ pc' = "cm_operators"
    /\ UNCHANGED <<cfg, reg, est, err, obj, out, ts, files, fio, mc, part>>

\* add_operators
CorrelatedAddOperators ==
    /\ pc = "cm_operators"
    /\ LET tn == mc.name \o Lit(":compound")
           three == {Lit("rawRates.s:") \o tn, Lit("rateGroupings.s:") \o tn,
                     Lit("rateGroupingSizes.s:") \o tn}
           O(id, spec, refs) ==
               WithRefs(El("operators", 1, "operator", Lit(id) \o tn, spec), refs)
       IN  doc' = doc \o
             << O("merger:", "parameterclone.splitandmerge.MergeOperator", three),
                O("splitter:", "parameterclone.splitandmerge.SplitOperator", three),
                O("exchanger:", "beast.evolution.operators.DeltaExchangeOperator",
                  {Lit("rawRates.s:") \o tn, Lit("rateGroupingSizes.s:") \o tn}) >>
    /\ pc' = "cm_param_logs"
    /\ UNCHANGED <<cfg, reg, est, err, obj, out, ts, files, fio, mc, part>>

\* add_param_logs
CorrelatedAddParamLogs ==
    /\ pc = "cm_param_logs"
    /\ LET tn == mc.name \o Lit(":compound")
       IN  doc' = doc \o
             << WithIdref(El("loggers", 1, "log", None, ""),
                          Lit("actualRates.s:") \o tn),
                WithRefs(El("loggers", 1, "log", Lit("independencyLogger.s:") \o tn,
                            "correlatedcharacters.polycharacter.IndependencyLogger"),
                         {Lit("substitutionmodel.s:") \o tn}) >>
    /\ pc' = "cm_done"
    /\ UNCHANGED <<cfg, reg, est, err, obj, out, ts, files, fio, mc, part>>

NextCorrelated ==
    \/ CorrelatedAddState
    \/ CorrelatedAddPrior
    \/ CorrelatedAddLikelihood
    \/ CorrelatedAddOperators
    \/ CorrelatedAddParamLogs

SpecCorrelated == InitCorrelated /\ [][NextCorrelated]_vars

(***************************************************************************)
(* C29: the correlated model's likelihood in document order                *)
(***************************************************************************)
\* the identifiers add_operators and add_param_logs refer to
LaterReferenced ==
    { Lit(p) \o mc.name \o Lit(":compound") :
        p \in {"rawRates.s:", "rateGroupings.s:", "rateGroupingSizes.s:",
               "actualRates.s:", "substitutionmodel.s:"} }

\* the identifiers of LaterReferenced are each defined exactly once, in the
\* state or the likelihood section, and every reference made by the
\* operators and the parameter logs is to one of them
DefinedOnce ==
    /\ \A id \in LaterReferenced :
          /\ Cardinality(Where(doc, id)) = 1
          /\ \A i \in Where(doc, id) : doc[i].sec \in {"state", "likelihood"}
    /\ \A i \in DOMAIN doc :
          doc[i].sec \in {"operators", "loggers"} =>
             RefsAt(doc, i) \subseteq LaterReferenced

\* C29: once the model has added its elements, the reference of the
\* substitution model's datatype to the compound data type comes after the
\* element that defines that data type, and the identifiers referenced by
\* add_operators and add_param_logs are each defined exactly once by
\* add_state or add_likelihood.
C29_LikelihoodInOrder ==
    pc \in {"cm_operators", "cm_param_logs", "cm_done"} =>
        /\ \A i \in DOMAIN doc :
              doc[i].tag = "datatype" =>
                 \E j \in 1..(i - 1) : doc[j].id = doc[i].idref
        /\ DefinedOnce

(***************************************************************************)
(* C30                                                                     *)
(***************************************************************************)
\* C30: when every calibration has taxa and a positive midpoint,
\* estimate_tree_height raises nothing, and the birth rate it sets, if any,
\* is positive and comes with a positive tree height.
C30_EstimateNeverFails ==
    (\A cal \in cfg.calibrations : cal.langs # <<>> /\ cal.mid > 0) =>
        /\ ~EstimateFailed
        /\ est.has_birth => (est.birth > 0 /\ est.has_height /\ est.height > 0)

====
